---- MODULE Spec2Model ----
(***************************************************************************)
(* Workflow graph engine of mas_aider (LangGraphEngine): one run of        *)
(* execute() over a declaratively configured state graph.  A graph step is *)
(* the agent node of the current state followed by the routing decision    *)
(* attached to that state.                                                 *)
(***************************************************************************)
EXTENDS Integers, Sequences, FiniteSets, TLC

\* ---------------------------------------------------------------- bounds
\* largest max_turns of a workflow configuration
MaxTurnsBound == 3

\* ------------------------------------------------------------- constants
\* recursion_limit = max_turns * 3
RecursionMultiplier == 3

None == "None"
END == "END"
EmptyMap == [k \in {} |-> 0]

\* ------------------------------------------------------- workflow configs
\* A token sequence stands for a condition expression string.
CondTrue == <<"true">>
CondFalse == <<"false">>
CondConfirmed == <<"confirmed">>

\* one state looping on itself unconditionally: no business exit
LoopWorkflow ==
  [name |-> "loop",
   states |-> << [name |-> "A", agent |-> "a",
                  transitions |-> << [condition |-> CondTrue, to |-> "A"] >>] >>,
   exit_conditions |-> << >>]

\* ask until confirmed
AskWorkflow ==
  [name |-> "ask",
   states |-> << [name |-> "ask", agent |-> "a", start |-> TRUE,
                  transitions |-> << [condition |-> CondConfirmed, to |-> END],
                                     [condition |-> CondTrue, to |-> "ask"] >>] >>,
   exit_conditions |-> << >>]

\* first transition of A never satisfied, second always; C declares a
\* transition without condition, B declares no transitions at all
FirstMatchWorkflow ==
  [name |-> "first_match",
   states |-> << [name |-> "B", agent |-> "b"],
                 [name |-> "A", agent |-> "a", start |-> TRUE,
                  transitions |-> << [condition |-> CondFalse, to |-> "B"],
                                     [condition |-> CondTrue, to |-> "C"] >>],
                 [name |-> "C", agent |-> "b",
                  transitions |-> << [to |-> "B"] >>] >>,
   exit_conditions |-> << >>]

\* two agents handing over, with a per-edge counter guard
RelayWorkflow ==
  [name |-> "relay",
   states |-> << [name |-> "A", agent |-> "a",
                  transitions |-> << [condition |-> CondConfirmed, to |-> "B"],
                                     [condition |-> <<"turn_count_a_A", ">=", "1">>, to |-> END],
                                     [condition |-> CondTrue, to |-> "A"] >>],
                 [name |-> "B", agent |-> "b",
                  transitions |-> << [condition |-> <<"NOT", "confirmed">>, to |-> "A"],
                                     [condition |-> CondConfirmed] >>] >>,
   exit_conditions |-> << >>]

\* the loop again, with an exit condition on the error flag
ErrorExitWorkflow ==
  [name |-> "error_exit",
   states |-> LoopWorkflow.states,
   exit_conditions |-> << [condition |-> <<"confirmed">>],
                          [condition |-> <<"error_occurred">>] >>]

\* the loop again, with an exit condition that is true from the start
AlwaysExitWorkflow ==
  [name |-> "always_exit",
   states |-> LoopWorkflow.states,
   exit_conditions |-> << [condition |-> << >>], [condition |-> <<"always">>] >>]

\* A hands over to B only when confirmed; B declares no transitions
GateWorkflow ==
  [name |-> "gate",
   states |-> << [name |-> "A", agent |-> "a",
                  transitions |-> << [condition |-> CondConfirmed, to |-> "B"] >>],
                 [name |-> "B", agent |-> "b"] >>,
   exit_conditions |-> << >>]

Workflows == {LoopWorkflow, AskWorkflow, FirstMatchWorkflow, RelayWorkflow,
              ErrorExitWorkflow, AlwaysExitWorkflow, GateWorkflow}

Configs ==
  {[name |-> w.name, states |-> w.states, exit_conditions |-> w.exit_conditions,
    max_turns |-> m] : w \in Workflows, m \in 0..MaxTurnsBound}

\* ---------------------------------------------------------- agent replies
Flags == {"confirmed"}
DecisionMaps == UNION {[S -> BOOLEAN] : S \in SUBSET Flags}

\* A reply text, abstracted to what the strict parser looks at: whether the
\* text holds a brace-delimited span, whether that span decodes, which keys
\* the decoded object has, and the prose left when the span is removed.
ValidReplies ==
  {[raw |-> "reply", json |-> "object", has_decisions |-> TRUE, decisions |-> d,
    has_content |-> (d # EmptyMap /\ \A k \in DOMAIN d : d[k]),
    content |-> IF d # EmptyMap /\ \A k \in DOMAIN d : d[k] THEN "content" ELSE "",
    prose |-> IF d = EmptyMap THEN "" ELSE "prose"] : d \in DecisionMaps}

BrokenReplies ==
  {[raw |-> "text", json |-> "none", has_decisions |-> FALSE, decisions |-> EmptyMap,
    has_content |-> FALSE, content |-> "", prose |-> "text"],
   [raw |-> "garbled", json |-> "invalid", has_decisions |-> FALSE, decisions |-> EmptyMap,
    has_content |-> FALSE, content |-> "", prose |-> "prose"],
   [raw |-> "reply_nd", json |-> "object", has_decisions |-> FALSE, decisions |-> EmptyMap,
    has_content |-> TRUE, content |-> "content", prose |-> "prose"]}

Replies == ValidReplies \cup BrokenReplies

VARIABLES
  config,        \* the workflow configuration the engine was built from
  pc,            \* "init" | "running" | "done"
  cur,           \* name of the node to execute next
  steps,         \* graph steps executed so far
  state,         \* the WorkflowState threaded through the graph
  result,        \* the dict returned by execute
  invocations,   \* history: number of agent invocations
  failed_states, \* history: states whose step failed, in order
  ok_steps,      \* history: <<state, agent>> of every successful step
  routed,        \* history: routing decisions per <<agent of source state, target>>
  last_step,     \* history: what the last graph step did
  end_reason,    \* history: why the run ended
  workflow_result, \* the WorkflowResult returned by ConfigWorkflow.execute
  call,          \* a direct call of an operation with its arguments
  returned,      \* what that call returned
  registry,      \* WorkflowFactory._registry: the registered workflow names
  active_agents, \* AgentService._active_agents: cache key -> agent instance
  created,       \* history: cache keys of the agents the factory created, in order
  acquired,      \* history: the get_agent calls that returned, with their agent
  threads        \* the get_agent calls in progress, one per thread

vars == <<config, pc, cur, steps, state, result, invocations, failed_states,
          ok_steps, routed, last_step, end_reason, workflow_result, call, returned,
          registry, active_agents, created, acquired, threads>>

service_vars == <<registry, active_agents, created, acquired, threads>>

\* no workflow class registered, no agent cached, no call in progress
ServiceInit ==
  /\ registry = {}
  /\ active_agents = EmptyMap
  /\ created = << >>
  /\ acquired = << >>
  /\ threads = << >>


\* ------------------------------------------------- configuration access
\* state_config.get("transitions", [])
StateTransitions(state_config) ==
  IF "transitions" \in DOMAIN state_config THEN state_config.transitions ELSE << >>

\* transition.get("condition", "true")
TransitionCondition(transition) ==
  IF "condition" \in DOMAIN transition THEN transition.condition ELSE <<"true">>

\* a lookup that ignores the declared target
TransitionTarget_terminal(transition) == END

\* transition.get("to", "END")
TransitionTarget(transition) ==
  IF "to" \in DOMAIN transition THEN transition.to ELSE END

\* state.get("start", False)
StartFlag(state_config) ==
  IF "start" \in DOMAIN state_config THEN state_config.start ELSE FALSE

\* self.state_map[name]
StateConfig(cfg, name) ==
  cfg.states[CHOOSE i \in 1..Len(cfg.states) : cfg.states[i].name = name]

RECURSIVE FirstStartFrom(_, _)
FirstStartFrom(states, i) ==
  IF i > Len(states) THEN 0
  ELSE IF StartFlag(states[i]) THEN i
  ELSE FirstStartFrom(states, i + 1)

\* the first declared state, whatever the flags
get_start_state_first(cfg) ==
  IF Len(cfg.states) > 0 THEN cfg.states[1].name ELSE None

\* first state flagged start, else the first declared state
get_start_state(cfg) ==
  LET i == FirstStartFrom(cfg.states, 1) IN
  IF i # 0 THEN cfg.states[i].name
  ELSE IF Len(cfg.states) > 0 THEN cfg.states[1].name
  ELSE None

\* a ceiling of four times the turn budget
recursion_limit_wide(cfg) == cfg.max_turns * (RecursionMultiplier + 1)

\* recursion_limit = self.max_turns * 3
recursion_limit(cfg) == cfg.max_turns * RecursionMultiplier

\* ------------------------------------------------- condition evaluator
Numerals == <<"0", "1", "2", "3", "4", "5", "6", "7", "8", "9">>
IsNumeral(tok) == \E i \in 1..Len(Numerals) : Numerals[i] = tok
NumeralValue(tok) == (CHOOSE i \in 1..Len(Numerals) : Numerals[i] = tok) - 1

BoolVal(b) == [t |-> "bool", b |-> b, n |-> 0]
NumVal(n) == [t |-> "num", b |-> FALSE, n |-> n]
Undefined == [t |-> "undef", b |-> FALSE, n |-> 0]

\* literal, else decision map, else run-scoped state map, else undefined
Resolve(tok, decisions, condition_state) ==
  IF tok \in {"true", "always"} THEN BoolVal(TRUE)
  ELSE IF tok \in {"false", "never"} THEN BoolVal(FALSE)
  ELSE IF IsNumeral(tok) THEN NumVal(NumeralValue(tok))
  ELSE IF tok \in DOMAIN decisions THEN BoolVal(decisions[tok])
  ELSE IF tok \in DOMAIN condition_state THEN NumVal(condition_state[tok])
  ELSE Undefined

Truthy(v) ==
  IF v.t = "bool" THEN v.b
  ELSE IF v.t = "num" THEN v.n # 0
  ELSE FALSE

Compare(op, l, r) ==
  IF l.t = "undef" \/ r.t = "undef" THEN FALSE
  ELSE IF l.t = "num" /\ r.t = "num" THEN
    CASE op = "==" -> l.n = r.n
      [] op = "!=" -> l.n # r.n
      [] op = ">"  -> l.n > r.n
      [] op = ">=" -> l.n >= r.n
      [] op = "<"  -> l.n < r.n
      [] op = "<=" -> l.n <= r.n
      [] OTHER -> FALSE
  ELSE IF l.t = "bool" /\ r.t = "bool" THEN
    CASE op = "==" -> l.b = r.b
      [] op = "!=" -> l.b # r.b
      [] OTHER -> FALSE
  ELSE op = "!="

\* agent_response.get("decisions", {})
ResponseDecisions(agent_response) ==
  IF "decisions" \in DOMAIN agent_response THEN agent_response.decisions ELSE EmptyMap

\* UnifiedConditionEvaluator.evaluate(condition, agent_response, condition_state, system_state)
evaluate(max_turns, condition, agent_response, condition_state, system_state) ==
  LET decisions == ResponseDecisions(agent_response) IN
  IF Len(condition) = 0 THEN TRUE
  ELSE IF Len(condition) = 1 THEN
    IF condition[1] = "max_turns_exceeded" THEN system_state.total_turns >= max_turns
    ELSE IF condition[1] = "error_occurred" THEN system_state.error # None
    ELSE Truthy(Resolve(condition[1], decisions, condition_state))
  ELSE IF Len(condition) = 2 /\ condition[1] = "NOT" THEN
    ~Truthy(Resolve(condition[2], decisions, condition_state))
  ELSE IF Len(condition) = 3 THEN
    Compare(condition[2], Resolve(condition[1], decisions, condition_state),
            Resolve(condition[3], decisions, condition_state))
  ELSE FALSE

\* --------------------------------------------------------- run state
\* create_initial_state(workflow_name, initial_message, workspace_info)
create_initial_state ==
  [last_agent |-> "", last_content |-> "", decisions |-> EmptyMap,
   total_turns |-> 0, execution_history |-> << >>, agent_responses |-> << >>,
   error |-> None, error_state |-> None, turn_counts |-> EmptyMap]

\* extract_agent_context(state)
extract_agent_context(st) ==
  [agent_response |-> [decisions |-> st.decisions, content |-> st.last_content],
   condition_state |-> st.turn_counts,
   system_state |-> [total_turns |-> st.total_turns, error |-> st.error]]

\* f"turn_count_{from_agent}_{target}"
turn_count_key(from_agent, target) == "turn_count_" \o from_agent \o "_" \o target

\* state.get(key, 0)
GetCount(counts, key) == IF key \in DOMAIN counts THEN counts[key] ELSE 0

\* state[key] = value
SetCount(counts, key, value) ==
  [k \in DOMAIN counts \cup {key} |-> IF k = key THEN value ELSE counts[k]]

\* --------------------------------------------------------- response parsing
\* strict parse of a reply: a brace span must exist, decode, and carry decisions
parse_agent_response(response) ==
  IF response.json = "none" THEN
    [ok |-> FALSE, error |-> "no_json", content |-> "", decisions |-> EmptyMap]
  ELSE IF response.json = "invalid" THEN
    [ok |-> FALSE, error |-> "invalid_json", content |-> "", decisions |-> EmptyMap]
  ELSE IF ~response.has_decisions THEN
    [ok |-> FALSE, error |-> "missing_decisions", content |-> "", decisions |-> EmptyMap]
  ELSE
    LET c1 == IF response.has_content THEN response.content ELSE response.prose
        c2 == IF c1 = "" THEN response.raw ELSE c1
    IN [ok |-> TRUE, error |-> None, content |-> c2, decisions |-> response.decisions]

\* --------------------------------------------------------------- agent node
\* decisions merged into the previous ones instead of replacing them
NewDecisions_merge(old, parsed) ==
  [k \in DOMAIN old \cup DOMAIN parsed.decisions |->
     IF k \in DOMAIN parsed.decisions THEN parsed.decisions[k] ELSE old[k]]

\* state["decisions"] = parsed_response.get("decisions", {})
NewDecisions(old, parsed) == parsed.decisions

\* an except branch that also discards the decisions of the previous step
agent_node_except_resets(st, state_name, e) ==
  [st EXCEPT !.error = e, !.error_state = state_name, !.decisions = EmptyMap]

\* the except branch of agent_node
agent_node_except(st, state_name, e) ==
  [st EXCEPT !.error = e, !.error_state = state_name]

\* an update that clears a recorded error when a later step succeeds
agent_node_update_clears_error(st, state_name, agent_name, parsed) ==
  LET decisions == parsed.decisions
      total == st.total_turns + 1
  IN [st EXCEPT
        !.last_agent = agent_name,
        !.last_content = parsed.content,
        !.decisions = decisions,
        !.total_turns = total,
        !.error = None,
        !.error_state = None,
        !.execution_history = Append(@, [state |-> state_name, agent |-> agent_name,
                                         decisions |-> decisions, total_turns |-> total]),
        !.agent_responses = Append(@, [state |-> state_name, agent |-> agent_name,
                                       response |-> [content |-> parsed.content,
                                                     decisions |-> parsed.decisions]])]

\* an update that records the turn number before incrementing it
agent_node_update_stale_total(st, state_name, agent_name, parsed) ==
  LET decisions == parsed.decisions
      total == st.total_turns + 1
  IN [st EXCEPT
        !.last_agent = agent_name,
        !.last_content = parsed.content,
        !.decisions = decisions,
        !.total_turns = total,
        !.execution_history = Append(@, [state |-> state_name, agent |-> agent_name,
                                         decisions |-> decisions,
                                         total_turns |-> st.total_turns]),
        !.agent_responses = Append(@, [state |-> state_name, agent |-> agent_name,
                                       response |-> [content |-> parsed.content,
                                                     decisions |-> parsed.decisions]])]

\* steps 5 to 7 of agent_node, after a successful call and parse
agent_node_update(st, state_name, agent_name, parsed) ==
  LET decisions == NewDecisions(st.decisions, parsed)
      total == st.total_turns + 1
  IN [st EXCEPT
        !.last_agent = agent_name,
        !.last_content = parsed.content,
        !.decisions = decisions,
        !.total_turns = total,
        !.execution_history = Append(@, [state |-> state_name, agent |-> agent_name,
                                         decisions |-> decisions, total_turns |-> total]),
        !.agent_responses = Append(@, [state |-> state_name, agent |-> agent_name,
                                       response |-> [content |-> parsed.content,
                                                     decisions |-> parsed.decisions]])]

\* outcome: the agent call raises, or returns a reply text
agent_node(st, state_config, outcome) ==
  IF outcome.raises THEN agent_node_except(st, state_config.name, "agent_failed")
  ELSE LET parsed == parse_agent_response(outcome.reply) IN
       IF ~parsed.ok THEN agent_node_except(st, state_config.name, parsed.error)
       ELSE agent_node_update(st, state_config.name, state_config.agent, parsed)

StepOk(outcome) == ~outcome.raises /\ parse_agent_response(outcome.reply).ok

\* ------------------------------------------------------------------ routing
RECURSIVE AnyExitCondition(_, _, _)
AnyExitCondition(cfg, ctx, i) ==
  IF i > Len(cfg.exit_conditions) THEN FALSE
  ELSE LET condition == IF "condition" \in DOMAIN cfg.exit_conditions[i]
                        THEN cfg.exit_conditions[i].condition ELSE << >>
       IN IF Len(condition) > 0
             /\ evaluate(cfg.max_turns, condition, EmptyMap, ctx.condition_state,
                         ctx.system_state)
          THEN TRUE
          ELSE AnyExitCondition(cfg, ctx, i + 1)

\* a turn budget compared with > instead of >=
check_global_exit_conditions_strict(cfg, st) ==
  LET ctx == extract_agent_context(st) IN
  IF ctx.system_state.total_turns > cfg.max_turns THEN TRUE
  ELSE AnyExitCondition(cfg, ctx, 1)

check_global_exit_conditions(cfg, st) ==
  LET ctx == extract_agent_context(st) IN
  IF ctx.system_state.total_turns >= cfg.max_turns THEN TRUE
  ELSE AnyExitCondition(cfg, ctx, 1)

\* the for loop of router: index of the transition that returns, 0 if none
RECURSIVE MatchFrom(_, _, _, _)
MatchFrom(cfg, transitions, ctx, i) ==
  IF i > Len(transitions) THEN 0
  ELSE IF evaluate(cfg.max_turns, TransitionCondition(transitions[i]),
                   ctx.agent_response, ctx.condition_state, ctx.system_state)
       THEN i
       ELSE MatchFrom(cfg, transitions, ctx, i + 1)

\* a loop that keeps the last satisfied transition instead of returning at the first
RECURSIVE LastMatchFrom(_, _, _, _)
LastMatchFrom(cfg, transitions, ctx, i) ==
  IF i < 1 THEN 0
  ELSE IF evaluate(cfg.max_turns, TransitionCondition(transitions[i]),
                   ctx.agent_response, ctx.condition_state, ctx.system_state)
       THEN i
       ELSE LastMatchFrom(cfg, transitions, ctx, i - 1)

MatchingTransition_last(cfg, transitions, ctx) ==
  LastMatchFrom(cfg, transitions, ctx, Len(transitions))

MatchingTransition(cfg, transitions, ctx) == MatchFrom(cfg, transitions, ctx, 1)

\* the per-edge counter update of router
UpdateTurnCount(st, target) ==
  LET from_agent == st.last_agent IN
  IF from_agent # "" /\ target # END
  THEN LET key == turn_count_key(from_agent, target) IN
       [st EXCEPT !.turn_counts = SetCount(@, key, GetCount(@, key) + 1)]
  ELSE st

\* a router that re-enters the first declared target when nothing matches
router_retries(cfg, st, transitions) ==
  IF check_global_exit_conditions(cfg, st)
  THEN [target |-> END, state |-> st, via |-> "global_exit", idx |-> 0]
  ELSE LET ctx == extract_agent_context(st)
           i == MatchingTransition(cfg, transitions, ctx)
       IN IF i = 0
          THEN [target |-> TransitionTarget(transitions[1]), state |-> st,
                via |-> "no_match", idx |-> 0]
          ELSE [target |-> TransitionTarget(transitions[i]),
                state |-> UpdateTurnCount(st, TransitionTarget(transitions[i])),
                via |-> "transition", idx |-> i]

router(cfg, st, transitions) ==
  IF check_global_exit_conditions(cfg, st)
  THEN [target |-> END, state |-> st, via |-> "global_exit", idx |-> 0]
  ELSE LET ctx == extract_agent_context(st)
           i == MatchingTransition(cfg, transitions, ctx)
       IN IF i = 0
          THEN [target |-> END, state |-> st, via |-> "no_match", idx |-> 0]
          ELSE [target |-> TransitionTarget(transitions[i]),
                state |-> UpdateTurnCount(st, TransitionTarget(transitions[i])),
                via |-> "transition", idx |-> i]

\* conditional edges for a state with transitions, a plain edge to END otherwise
Route(cfg, st, state_config) ==
  LET transitions == StateTransitions(state_config) IN
  IF Len(transitions) > 0 THEN router(cfg, st, transitions)
  ELSE [target |-> END, state |-> st, via |-> "edge", idx |-> 0]

\* ------------------------------------------------------------------ results
get_agents_used(final_state) ==
  {final_state.execution_history[i].agent : i \in 1..Len(final_state.execution_history)}

build_result(final_state) ==
  [success |-> final_state.error = None,
   total_turns |-> final_state.total_turns,
   agents_used |-> get_agents_used(final_state),
   error |-> final_state.error,
   error_state |-> final_state.error_state,
   execution_history |-> final_state.execution_history]

\* the except branch of execute: built from initial_state, whose list objects
\* are the ones the nodes appended to
ExceptionResult(e, history) ==
  [success |-> FALSE,
   total_turns |-> create_initial_state.total_turns,
   agents_used |-> {},
   error |-> e,
   error_state |-> None,
   execution_history |-> history]

NoResult ==
  [success |-> FALSE, total_turns |-> 0, agents_used |-> {}, error |-> None,
   error_state |-> None, execution_history |-> << >>]

\* ------------------------------------------------- ConfigWorkflow.execute
\* metadata={}
EmptyMetadata == [error |-> None, error_state |-> None, execution_history |-> << >>]

\* the WorkflowResult dataclass; error_message defaults to None
WorkflowResult(success, total_turns, agents_used, metadata, error_message) ==
  [success |-> success, total_turns |-> total_turns, agents_used |-> agents_used,
   metadata |-> metadata, error_message |-> error_message]

\* step 8 of ConfigWorkflow.execute: the engine's dict repackaged; the error
\* stays inside metadata and error_message is not passed
ConfigWorkflow_execute(r) ==
  WorkflowResult(r.success, r.total_turns, r.agents_used,
                 [error |-> r.error, error_state |-> r.error_state,
                  execution_history |-> r.execution_history],
                 None)

\* the except branch of ConfigWorkflow.execute
ConfigWorkflow_execute_except(e) == WorkflowResult(FALSE, 0, {}, EmptyMetadata, e)

NoWorkflowResult == WorkflowResult(FALSE, 0, {}, EmptyMetadata, "not_returned")

NoStep ==
  [state |-> "", agent |-> "", ok |-> FALSE, decisions |-> EmptyMap,
   via |-> "", idx |-> 0, target |-> "",
   ctx |-> extract_agent_context(create_initial_state)]

\* ------------------------------------------- legacy condition evaluator
\* ConditionEvaluator of services/evaluators/condition_evaluator.py, the
\* evaluator StateMachineEngine builds.  A Python string is the sequence of
\* its characters, a Python value a tagged record, a dict a function.

\* max_turns: int = 10
DefaultMaxTurns == 10

PyNone == [t |-> "None", b |-> FALSE, n |-> 0, s |-> << >>]
PyBool(b) == [t |-> "bool", b |-> b, n |-> 0, s |-> << >>]
PyInt(n) == [t |-> "int", b |-> FALSE, n |-> n, s |-> << >>]
PyStr(s) == [t |-> "str", b |-> FALSE, n |-> 0, s |-> s]

\* bool(v)
py_bool(v) ==
  CASE v.t = "bool" -> v.b
    [] v.t = "int" -> v.n # 0
    [] v.t = "str" -> Len(v.s) > 0
    [] OTHER -> FALSE

\* bool is a subclass of int: True is 1, False is 0
IsNumber(v) == v.t \in {"bool", "int"}
NumberOf(v) == IF v.t = "bool" THEN (IF v.b THEN 1 ELSE 0) ELSE v.n

\* v == w
py_eq(v, w) ==
  IF IsNumber(v) /\ IsNumber(w) THEN NumberOf(v) = NumberOf(w)
  ELSE IF v.t = "str" /\ w.t = "str" THEN v.s = w.s
  ELSE v.t = "None" /\ w.t = "None"

\* d.get(key, default)
dict_get(d, key, default) == IF key \in DOMAIN d THEN d[key] ELSE default

\* what evaluate hands back: a boolean, or an exception leaving the call
Returns(b) == [raised |-> FALSE, value |-> b]
Raises == [raised |-> TRUE, value |-> FALSE]

\* --- character classes and str methods
LowerLetters ==
  << "a", "b", "c", "d", "e", "f", "g", "h", "i", "j", "k", "l", "m",
     "n", "o", "p", "q", "r", "s", "t", "u", "v", "w", "x", "y", "z" >>
UpperLetters ==
  << "A", "B", "C", "D", "E", "F", "G", "H", "I", "J", "K", "L", "M",
     "N", "O", "P", "Q", "R", "S", "T", "U", "V", "W", "X", "Y", "Z" >>

IndexOf(seq, c) ==
  IF \E i \in 1..Len(seq) : seq[i] = c
  THEN CHOOSE i \in 1..Len(seq) : seq[i] = c
  ELSE 0

\* \s, \w and [><=!]
SpaceChars == {" ", "\t", "\n", "\r"}
WordChars ==
  {LowerLetters[i] : i \in 1..26} \cup {UpperLetters[i] : i \in 1..26}
    \cup {Numerals[i] : i \in 1..10} \cup {"_"}
OpChars == {">", "<", "=", "!"}
QuoteChars == {"\"", "'"}

\* s.upper(), s.lower()
upper(s) ==
  [i \in 1..Len(s) |->
     IF IndexOf(LowerLetters, s[i]) # 0
     THEN UpperLetters[IndexOf(LowerLetters, s[i])] ELSE s[i]]
lower(s) ==
  [i \in 1..Len(s) |->
     IF IndexOf(UpperLetters, s[i]) # 0
     THEN LowerLetters[IndexOf(UpperLetters, s[i])] ELSE s[i]]

\* s.strip(chars)
strip_chars(s, chars) ==
  LET keep == {i \in 1..Len(s) : s[i] \notin chars} IN
  IF keep = {} THEN << >>
  ELSE SubSeq(s, CHOOSE i \in keep : \A j \in keep : i <= j,
                 CHOOSE i \in keep : \A j \in keep : i >= j)

\* s.strip()
strip(s) == strip_chars(s, SpaceChars)

\* sub in s
contains(s, sub) ==
  \E i \in 1..(Len(s) - Len(sub) + 1) : SubSeq(s, i, i + Len(sub) - 1) = sub

\* s.startswith(prefix)
startswith(s, prefix) ==
  Len(prefix) <= Len(s) /\ SubSeq(s, 1, Len(prefix)) = prefix

\* s.replace(old, new) for a one-character old
RECURSIVE replace(_, _, _)
replace(s, old, new) ==
  IF s = << >> THEN << >>
  ELSE (IF Head(s) = old THEN new ELSE << Head(s) >>) \o replace(Tail(s), old, new)

\* --- int(value_str)
RECURSIVE DigitsValue(_)
DigitsValue(d) ==
  IF d = << >> THEN 0
  ELSE DigitsValue(SubSeq(d, 1, Len(d) - 1)) * 10 + NumeralValue(d[Len(d)])

IntBody(s) ==
  LET t == strip(s) IN
  IF t # << >> /\ t[1] \in {"+", "-"} THEN Tail(t) ELSE t

\* int() accepts surrounding whitespace, a sign and decimal digits, with
\* single underscores between digits
IsIntLiteral(s) ==
  LET d == IntBody(s) IN
  /\ d # << >>
  /\ \A i \in 1..Len(d) :
       \/ IsNumeral(d[i])
       \/ d[i] = "_" /\ 1 < i /\ i < Len(d) /\ IsNumeral(d[i - 1]) /\ IsNumeral(d[i + 1])

IsDigit(c) == IsNumeral(c)

IntValue(s) ==
  IF strip(s)[1] = "-" THEN 0 - DigitsValue(SelectSeq(IntBody(s), IsDigit))
  ELSE DigitsValue(SelectSeq(IntBody(s), IsDigit))

\* lines 97-103: float() when the text has a "." or an "e", int() otherwise,
\* the text without surrounding quotes when the conversion raises ValueError.
\* No expression of this model carries a decimal, exponent, inf or nan
\* literal, so float() raises wherever it is tried.
compare_value(value_str) ==
  IF contains(value_str, << "." >>) \/ contains(lower(value_str), << "e" >>)
  THEN PyStr(strip_chars(value_str, QuoteChars))
  ELSE IF IsIntLiteral(value_str) THEN PyInt(IntValue(value_str))
  ELSE PyStr(strip_chars(value_str, QuoteChars))

\* --- re.match(r'(\w+)\s*([><=!]+)\s*(.+)', expr)
\* length of the run of characters of a class that starts at position i
RECURSIVE RunLength(_, _, _)
RunLength(s, i, class) ==
  IF i > Len(s) THEN 0
  ELSE IF s[i] \notin class THEN 0
  ELSE 1 + RunLength(s, i + 1, class)

NoMatch == [matched |-> FALSE, var_name |-> << >>, op |-> << >>, value_str |-> << >>]

\* greedy groups; when nothing is left for (.+) the operator run gives its
\* last character back, or a trailing blank is taken as the value
re_match(s) ==
  LET w == RunLength(s, 1, WordChars)
      s1 == RunLength(s, w + 1, SpaceChars)
      k == RunLength(s, w + s1 + 1, OpChars)
      s2 == RunLength(s, w + s1 + k + 1, SpaceChars)
      rest == w + s1 + k + s2 + 1
  IN IF w = 0 \/ k = 0 THEN NoMatch
     ELSE IF rest <= Len(s)
     THEN [matched |-> TRUE, var_name |-> SubSeq(s, 1, w),
           op |-> SubSeq(s, w + s1 + 1, w + s1 + k),
           value_str |-> SubSeq(s, rest, Len(s))]
     ELSE IF s2 > 0
     THEN [matched |-> TRUE, var_name |-> SubSeq(s, 1, w),
           op |-> SubSeq(s, w + s1 + 1, w + s1 + k),
           value_str |-> SubSeq(s, Len(s), Len(s))]
     ELSE IF k >= 2
     THEN [matched |-> TRUE, var_name |-> SubSeq(s, 1, w),
           op |-> SubSeq(s, w + s1 + 1, w + s1 + k - 1),
           value_str |-> SubSeq(s, Len(s), Len(s))]
     ELSE NoMatch

\* any(op in expr for op in [">=", "<=", "!=", "==", ">", "<", "="])
is_state_expression(expr) ==
  \E op \in {<< ">", "=" >>, << "<", "=" >>, << "!", "=" >>, << "=", "=" >>,
             << ">" >>, << "<" >>, << "=" >>} : contains(expr, op)

\* the comparison chain of lines 106-117; an ordering between a number and a
\* string raises TypeError, which the enclosing try turns into False.
\* global_state holds numbers, booleans and None in this model.
compare_op(op, var_value, value) ==
  CASE op = << "=", "=" >> -> py_eq(var_value, value)
    [] op = << "!", "=" >> -> ~py_eq(var_value, value)
    [] op = << ">" >> ->
         IsNumber(var_value) /\ IsNumber(value) /\ NumberOf(var_value) > NumberOf(value)
    [] op = << ">", "=" >> ->
         IsNumber(var_value) /\ IsNumber(value) /\ NumberOf(var_value) >= NumberOf(value)
    [] op = << "<" >> ->
         IsNumber(var_value) /\ IsNumber(value) /\ NumberOf(var_value) < NumberOf(value)
    [] op = << "<", "=" >> ->
         IsNumber(var_value) /\ IsNumber(value) /\ NumberOf(var_value) <= NumberOf(value)
    [] OTHER -> FALSE

\* _evaluate_state_expression(expr, state): never raises
evaluate_state_expression(expr, st) ==
  LET m == re_match(replace(expr, "=", << "=", "=" >>)) IN
  IF ~m.matched THEN FALSE
  ELSE LET var_value == dict_get(st, m.var_name, PyNone) IN
       IF var_value = PyNone THEN FALSE
       ELSE compare_op(m.op, var_value, compare_value(m.value_str))

\* --- _split_by_operator(expr, operator)
RECURSIVE split_from(_, _, _, _, _, _)
split_from(expr, operator, i, paren_depth, current_part, parts) ==
  IF i > Len(expr)
  THEN IF strip(current_part) # << >> THEN Append(parts, strip(current_part)) ELSE parts
  ELSE IF expr[i] = "("
  THEN split_from(expr, operator, i + 1, paren_depth + 1,
                  Append(current_part, expr[i]), parts)
  ELSE IF expr[i] = ")"
  THEN split_from(expr, operator, i + 1, paren_depth - 1,
                  Append(current_part, expr[i]), parts)
  ELSE IF paren_depth = 0
          /\ upper(SubSeq(expr, i, IF i + Len(operator) + 1 <= Len(expr)
                                   THEN i + Len(operator) + 1 ELSE Len(expr)))
               = << " " >> \o operator \o << " " >>
  THEN split_from(expr, operator, i + Len(operator) + 1, paren_depth,
                  << >>, Append(parts, strip(current_part)))
  ELSE split_from(expr, operator, i + 1, paren_depth,
                  Append(current_part, expr[i]), parts)

split_by_operator(expr, operator) == split_from(expr, operator, 1, 0, << >>, << >>)

\* --- the strings of the evaluator and of the calls below
\* ""
Str_empty == << >>
\* "   "
Str_blank == << " ", " ", " " >>
\* "true"
Str_true == << "t", "r", "u", "e" >>
\* "false"
Str_false == << "f", "a", "l", "s", "e" >>
\* "always"
Str_always == << "a", "l", "w", "a", "y", "s" >>
\* "never"
Str_never == << "n", "e", "v", "e", "r" >>
\* "max_turns_exceeded"
Str_max_turns_exceeded ==
  << "m", "a", "x", "_", "t", "u", "r", "n", "s",
     "_", "e", "x", "c", "e", "e", "d", "e", "d" >>
\* "error_occurred"
Str_error_occurred ==
  << "e", "r", "r", "o", "r", "_", "o",
     "c", "c", "u", "r", "r", "e", "d" >>
\* "complex_logic"
Str_complex_logic ==
  << "c", "o", "m", "p", "l", "e",
     "x", "_", "l", "o", "g", "i", "c" >>
\* "high_quality"
Str_high_quality ==
  << "h", "i", "g", "h", "_", "q",
     "u", "a", "l", "i", "t", "y" >>
\* "turn_count"
Str_turn_count == << "t", "u", "r", "n", "_", "c", "o", "u", "n", "t" >>
\* "error"
Str_error == << "e", "r", "r", "o", "r" >>
\* "quality_score"
Str_quality_score ==
  << "q", "u", "a", "l", "i", "t",
     "y", "_", "s", "c", "o", "r", "e" >>
\* "confidence"
Str_confidence == << "c", "o", "n", "f", "i", "d", "e", "n", "c", "e" >>
\* "AND"
Str_AND == << "A", "N", "D" >>
\* "OR"
Str_OR == << "O", "R" >>
\* "a"
Str_a == << "a" >>
\* "b"
Str_b == << "b" >>
\* "c"
Str_c == << "c" >>
\* "x"
Str_x == << "x" >>
\* "flag"
Str_flag == << "f", "l", "a", "g" >>
\* "NOT a"
Str_not_a == << "N", "O", "T", " ", "a" >>
\* "a AND b"
Str_a_and_b == << "a", " ", "A", "N", "D", " ", "b" >>
\* "a OR b"
Str_a_or_b == << "a", " ", "O", "R", " ", "b" >>
\* "a OR b AND c"
Str_a_or_b_and_c ==
  << "a", " ", "O", "R", " ", "b",
     " ", "A", "N", "D", " ", "c" >>
\* "NOT a AND NOT b"
Str_not_a_and_not_b ==
  << "N", "O", "T", " ", "a", " ", "A",
     "N", "D", " ", "N", "O", "T", " ", "b" >>
\* "(a OR b) AND c"
Str_paren_a_or_b_and_c ==
  << "(", "a", " ", "O", "R", " ", "b",
     ")", " ", "A", "N", "D", " ", "c" >>
\* "turn_count > 10"
Str_turn_count_gt_10 ==
  << "t", "u", "r", "n", "_", "c", "o",
     "u", "n", "t", " ", ">", " ", "1", "0" >>
\* "turn_count >= 10"
Str_turn_count_ge_10 ==
  << "t", "u", "r", "n", "_", "c", "o", "u",
     "n", "t", " ", ">", "=", " ", "1", "0" >>
\* "turn_count < 10"
Str_turn_count_lt_10 ==
  << "t", "u", "r", "n", "_", "c", "o",
     "u", "n", "t", " ", "<", " ", "1", "0" >>
\* "turn_count <= 10"
Str_turn_count_le_10 ==
  << "t", "u", "r", "n", "_", "c", "o", "u",
     "n", "t", " ", "<", "=", " ", "1", "0" >>
\* "turn_count == 10"
Str_turn_count_eq_10 ==
  << "t", "u", "r", "n", "_", "c", "o", "u",
     "n", "t", " ", "=", "=", " ", "1", "0" >>
\* "turn_count != 10"
Str_turn_count_ne_10 ==
  << "t", "u", "r", "n", "_", "c", "o", "u",
     "n", "t", " ", "!", "=", " ", "1", "0" >>
\* "turn_count = 10"
Str_turn_count_assign_10 ==
  << "t", "u", "r", "n", "_", "c", "o",
     "u", "n", "t", " ", "=", " ", "1", "0" >>
\* "turn_count < 10 < 20"
Str_turn_count_lt_10_lt_20 ==
  << "t", "u", "r", "n", "_", "c", "o", "u", "n", "t",
     " ", "<", " ", "1", "0", " ", "<", " ", "2", "0" >>
\* "x == 100"
Str_x_eq_100 == << "x", " ", "=", "=", " ", "1", "0", "0" >>
\* "x == 5"
Str_x_eq_5 == << "x", " ", "=", "=", " ", "5" >>
\* "x == true"
Str_x_eq_true == << "x", " ", "=", "=", " ", "t", "r", "u", "e" >>
\* "a =="
Str_a_eq == << "a", " ", "=", "=" >>
\* "a AND"
Str_a_and == << "a", " ", "A", "N", "D" >>
\* "(a"
Str_open_a == << "(", "a" >>
\* "True"
Str_True == << "T", "r", "u", "e" >>
\* "False"
Str_False == << "F", "a", "l", "s", "e" >>
\* "1"
Str_1 == << "1" >>
\* "0"
Str_0 == << "0" >>
\* "yes"
Str_yes == << "y", "e", "s" >>
\* "no"
Str_no == << "n", "o" >>
\* "YES"
Str_YES == << "Y", "E", "S" >>
\* "NO"
Str_NO == << "N", "O" >>

\* --- agent_response and its decisions
DictValue(map) == [kind |-> "dict", map |-> map, items |-> << >>]
NullValue == [kind |-> "None", map |-> EmptyMap, items |-> << >>]
ListValue(items) == [kind |-> "list", map |-> EmptyMap, items |-> items]

\* agent_response.get("decisions", {})
legacy_decisions(agent_response) ==
  IF agent_response.has_decisions THEN agent_response.decisions ELSE DictValue(EmptyMap)

\* condition_expr in decisions, for a dict and for a list; None does not
\* support the test
key_in(expr, decisions) ==
  IF decisions.kind = "dict" THEN expr \in DOMAIN decisions.map
  ELSE \E i \in 1..Len(decisions.items) : decisions.items[i] = expr

\* self.system_conditions
SystemConditionNames ==
  {Str_always, Str_never, Str_max_turns_exceeded, Str_error_occurred}

\* the keyword max_turns_exceeded with a strict comparison
system_conditions_strict(max_turns, name, global_state) ==
  IF name = Str_always THEN Returns(TRUE)
  ELSE IF name = Str_never THEN Returns(FALSE)
  ELSE IF name = Str_max_turns_exceeded
  THEN LET turn_count == dict_get(global_state, Str_turn_count, PyInt(0)) IN
       IF IsNumber(turn_count) THEN Returns(NumberOf(turn_count) > max_turns)
       ELSE Raises
  ELSE Returns(dict_get(global_state, Str_error, PyNone) # PyNone)

system_conditions(max_turns, name, global_state) ==
  IF name = Str_always THEN Returns(TRUE)
  ELSE IF name = Str_never THEN Returns(FALSE)
  ELSE IF name = Str_max_turns_exceeded
  THEN LET turn_count == dict_get(global_state, Str_turn_count, PyInt(0)) IN
       IF IsNumber(turn_count) THEN Returns(NumberOf(turn_count) >= max_turns)
       ELSE Raises
  ELSE Returns(dict_get(global_state, Str_error, PyNone) # PyNone)

\* hasattr(self, f"check_{condition_expr}")
CustomChecks == {Str_complex_logic, Str_high_quality}

\* check_complex_logic and check_high_quality; the float bound 0.7 is passed
\* by the integers from 1 on
custom_check(name, agent_response) ==
  LET decisions == legacy_decisions(agent_response) IN
  IF decisions.kind # "dict" THEN Raises
  ELSE LET quality == dict_get(decisions.map, Str_quality_score, PyInt(0))
           confidence == dict_get(decisions.map, Str_confidence, PyInt(0))
       IN IF ~IsNumber(quality) THEN Raises
          ELSE IF name = Str_high_quality THEN Returns(NumberOf(quality) >= 9)
          ELSE IF ~(NumberOf(quality) >= 7) THEN Returns(FALSE)
          ELSE IF ~IsNumber(confidence) THEN Raises
          ELSE Returns(NumberOf(confidence) >= 1)

RECURSIVE ConditionEvaluator_evaluate(_, _, _, _)
RECURSIVE all_parts(_, _, _, _, _)
RECURSIVE any_parts(_, _, _, _, _)

\* all(self.evaluate(part.strip(), ...) for part in parts), from part i on
all_parts(max_turns, parts, i, agent_response, global_state) ==
  IF i > Len(parts) THEN Returns(TRUE)
  ELSE LET r == ConditionEvaluator_evaluate(max_turns, strip(parts[i]),
                                            agent_response, global_state)
       IN IF r.raised THEN Raises
          ELSE IF ~r.value THEN Returns(FALSE)
          ELSE all_parts(max_turns, parts, i + 1, agent_response, global_state)

\* any(self.evaluate(part.strip(), ...) for part in parts), from part i on
any_parts(max_turns, parts, i, agent_response, global_state) ==
  IF i > Len(parts) THEN Returns(FALSE)
  ELSE LET r == ConditionEvaluator_evaluate(max_turns, strip(parts[i]),
                                            agent_response, global_state)
       IN IF r.raised THEN Raises
          ELSE IF r.value THEN Returns(TRUE)
          ELSE any_parts(max_turns, parts, i + 1, agent_response, global_state)

\* the body of the try of _evaluate_compound_condition.  When the split
\* leaves the expression in one piece (its operator sits inside parentheses)
\* evaluate is entered again with the same text and the recursion ends in
\* RecursionError.
compound_body(max_turns, expr, agent_response, global_state) ==
  LET expr_upper == upper(expr) IN
  IF startswith(expr_upper, << "N", "O", "T", " " >>)
  THEN LET r == ConditionEvaluator_evaluate(max_turns, strip(SubSeq(expr, 5, Len(expr))),
                                            agent_response, global_state)
       IN IF r.raised THEN Raises ELSE Returns(~r.value)
  ELSE IF contains(expr_upper, << " ", "A", "N", "D", " " >>)
  THEN LET parts == split_by_operator(expr, Str_AND) IN
       IF parts = << expr >> THEN Raises
       ELSE all_parts(max_turns, parts, 1, agent_response, global_state)
  ELSE IF contains(expr_upper, << " ", "O", "R", " " >>)
  THEN LET parts == split_by_operator(expr, Str_OR) IN
       IF parts = << expr >> THEN Raises
       ELSE any_parts(max_turns, parts, 1, agent_response, global_state)
  ELSE Returns(FALSE)

\* _evaluate_compound_condition: except Exception -> False
evaluate_compound_condition(max_turns, expr, agent_response, global_state) ==
  LET r == compound_body(max_turns, expr, agent_response, global_state) IN
  IF r.raised THEN Returns(FALSE) ELSE r

\* ConditionEvaluator.evaluate(condition_expr, agent_response, global_state)
ConditionEvaluator_evaluate(max_turns, condition_expr, agent_response, global_state) ==
  IF strip(condition_expr) = << >> THEN Returns(TRUE)
  ELSE
    LET expr == strip(condition_expr)
        decisions == legacy_decisions(agent_response)
    IN IF expr \in SystemConditionNames
       THEN system_conditions(max_turns, expr, global_state)
       ELSE IF decisions.kind = "None" THEN Raises
       ELSE IF key_in(expr, decisions)
       THEN IF decisions.kind = "dict"
            THEN Returns(py_bool(decisions.map[expr]))
            ELSE Raises
       ELSE IF is_state_expression(expr)
       THEN Returns(evaluate_state_expression(expr, global_state))
       ELSE IF \E op \in {<< " ", "A", "N", "D", " " >>, << " ", "O", "R", " " >>,
                          << " ", "N", "O", "T", " " >>} : contains(upper(expr), op)
       THEN evaluate_compound_condition(max_turns, expr, agent_response, global_state)
       ELSE IF expr \in CustomChecks
       THEN custom_check(expr, agent_response)
       ELSE Returns(py_bool(dict_get(global_state, expr, PyBool(FALSE))))

\* --- StateMachineEngine._evaluate_transitions
RECURSIVE evaluate_transitions_from(_, _, _, _, _)
evaluate_transitions_from(max_turns, transitions, i, agent_response, global_state) ==
  IF i > Len(transitions) THEN [raised |-> FALSE, target |-> END]
  ELSE LET condition == IF "condition" \in DOMAIN transitions[i]
                        THEN transitions[i].condition ELSE Str_true
           target == IF "to" \in DOMAIN transitions[i] THEN transitions[i].to ELSE END
           r == ConditionEvaluator_evaluate(max_turns, condition, agent_response,
                                            global_state)
       IN IF r.raised THEN [raised |-> TRUE, target |-> ""]
          ELSE IF r.value THEN [raised |-> FALSE, target |-> target]
          ELSE evaluate_transitions_from(max_turns, transitions, i + 1,
                                         agent_response, global_state)

evaluate_transitions(max_turns, transitions, agent_response, global_state) ==
  evaluate_transitions_from(max_turns, transitions, 1, agent_response, global_state)

\* ------------------------------------------------------ evaluator calls
\* decision strings of either truth, in several letter cases
FlagStrings ==
  {Str_true, Str_True, Str_1, Str_yes, Str_YES,
   Str_false, Str_False, Str_0, Str_no, Str_NO}

DecisionDicts ==
  {EmptyMap, Str_x :> PyInt(100), Str_turn_count :> PyInt(5), Str_flag :> PyBool(TRUE)}
    \cup {(Str_a :> PyBool(a)) @@ (Str_b :> PyBool(b)) @@ (Str_c :> PyBool(c)) :
            a \in BOOLEAN, b \in BOOLEAN, c \in BOOLEAN}
    \cup {Str_flag :> PyStr(s) : s \in FlagStrings}
    \cup {Str_max_turns_exceeded :> PyBool(b) : b \in BOOLEAN}

\* replies with a decision object, without the key, with null and with a list
AgentResponses ==
  {[has_decisions |-> TRUE, decisions |-> DictValue(d)] : d \in DecisionDicts}
    \cup {[has_decisions |-> FALSE, decisions |-> DictValue(EmptyMap)],
          [has_decisions |-> TRUE, decisions |-> NullValue],
          [has_decisions |-> TRUE, decisions |-> ListValue(<< Str_a >>)]}

GlobalStates ==
  {EmptyMap, Str_turn_count :> PyInt(5), Str_turn_count :> PyInt(9),
   Str_turn_count :> PyInt(10),
   Str_turn_count :> PyInt(15), Str_x :> PyInt(5), Str_a :> PyBool(TRUE),
   (Str_open_a :> PyBool(TRUE)) @@ (Str_a_eq :> PyBool(TRUE))}

MalformedExprs == {Str_a_eq, Str_a_and, Str_open_a}

ConditionExprs ==
  {Str_empty, Str_blank, Str_true, Str_false, Str_always, Str_never,
   Str_max_turns_exceeded, Str_error_occurred, Str_high_quality,
   Str_a, Str_x, Str_flag, Str_not_a, Str_a_and_b, Str_a_or_b,
   Str_a_or_b_and_c, Str_not_a_and_not_b, Str_paren_a_or_b_and_c,
   Str_turn_count_gt_10, Str_turn_count_ge_10, Str_turn_count_lt_10,
   Str_turn_count_le_10, Str_turn_count_eq_10, Str_turn_count_ne_10,
   Str_turn_count_assign_10, Str_turn_count_lt_10_lt_20,
   Str_x_eq_100, Str_x_eq_5, Str_x_eq_true}
    \cup MalformedExprs

TransitionLists ==
  {<< >>,
   << [to |-> "B"] >>,
   << [condition |-> Str_a, to |-> "B"] >>,
   << [condition |-> Str_a] >>,
   << [condition |-> Str_false, to |-> "B"], [condition |-> Str_true, to |-> "C"] >>,
   << [condition |-> Str_never, to |-> "B"], [condition |-> Str_always, to |-> "C"] >>}

EvaluateCalls ==
  {[op |-> "evaluate", condition_expr |-> e, agent_response |-> r,
    global_state |-> g, transitions |-> << >>] :
     e \in ConditionExprs, r \in AgentResponses, g \in GlobalStates}

TransitionCalls ==
  {[op |-> "evaluate_transitions", condition_expr |-> << >>, agent_response |-> r,
    global_state |-> g, transitions |-> t] :
     t \in TransitionLists, r \in AgentResponses, g \in GlobalStates}

NoCall ==
  [op |-> "none", condition_expr |-> << >>,
   agent_response |-> [has_decisions |-> FALSE, decisions |-> DictValue(EmptyMap)],
   global_state |-> EmptyMap, transitions |-> << >>]

NoReturn == [done |-> FALSE, raised |-> FALSE, value |-> FALSE, target |-> ""]

\* ------------------------------------------------- reply texts and parsers
\* A reply text is a sequence of lexemes: braces, colon, comma, blank, quoted
\* strings, the literals true and false, and a word of prose.  No lexeme is a
\* prefix of another, so a substring that starts at a brace lines up with the
\* lexemes.
StringLexemes ==
  {"\"decisions\"", "\"content\"", "\"confirmed\"", "\"text\"", "\"\""}

\* the characters between the quotes of a string lexeme, as a text
Unquote(lexeme) ==
  CASE lexeme = "\"decisions\"" -> << "decisions" >>
    [] lexeme = "\"content\"" -> << "content" >>
    [] lexeme = "\"confirmed\"" -> << "confirmed" >>
    [] lexeme = "\"text\"" -> << "text" >>
    [] OTHER -> << >>

JStr(s) == [kind |-> "str", s |-> s]
JBool(b) == [kind |-> "bool", b |-> b]
JDict(map) == [kind |-> "dict", map |-> map]

\* bool(value) of a decoded value
json_truthy(v) ==
  CASE v.kind = "str" -> v.s # << >>
    [] v.kind = "bool" -> v.b
    [] OTHER -> v.map # EmptyMap

DecodeError == [ok |-> FALSE, value |-> JBool(FALSE), end |-> 0]

\* first index from i on that holds no blank
RECURSIVE skip_whitespace(_, _)
skip_whitespace(s, i) ==
  IF i <= Len(s) /\ s[i] \in SpaceChars THEN skip_whitespace(s, i + 1) ELSE i

\* json.scanner: the value that starts at index i, and the index after it
RECURSIVE scan_once(_, _)
RECURSIVE JSONObject(_, _, _)
scan_once(s, i) ==
  IF i > Len(s) THEN DecodeError
  ELSE IF s[i] \in StringLexemes
  THEN [ok |-> TRUE, value |-> JStr(Unquote(s[i])), end |-> i + 1]
  ELSE IF s[i] \in {"true", "false"}
  THEN [ok |-> TRUE, value |-> JBool(s[i] = "true"), end |-> i + 1]
  ELSE IF s[i] = "{"
  THEN LET j == skip_whitespace(s, i + 1) IN
       IF j <= Len(s) /\ s[j] = "}"
       THEN [ok |-> TRUE, value |-> JDict(EmptyMap), end |-> j + 1]
       ELSE JSONObject(s, j, EmptyMap)
  ELSE DecodeError

\* the members of an object from the key at index j on; a repeated key keeps
\* its last value
JSONObject(s, j, map) ==
  IF j > Len(s) \/ s[j] \notin StringLexemes THEN DecodeError
  ELSE
    LET colon == skip_whitespace(s, j + 1) IN
    IF colon > Len(s) \/ s[colon] # ":" THEN DecodeError
    ELSE
      LET v == scan_once(s, skip_whitespace(s, colon + 1)) IN
      IF ~v.ok THEN DecodeError
      ELSE
        LET e == skip_whitespace(s, v.end)
            members == (Unquote(s[j]) :> v.value) @@ map
        IN IF e > Len(s) THEN DecodeError
           ELSE IF s[e] = "}"
           THEN [ok |-> TRUE, value |-> JDict(members), end |-> e + 1]
           ELSE IF s[e] = ","
           THEN JSONObject(s, skip_whitespace(s, e + 1), members)
           ELSE DecodeError

\* json.JSONDecoder().raw_decode(s): the value at the start of s and the
\* number of lexemes it spans
raw_decode(s) ==
  LET r == scan_once(s, 1) IN
  IF r.ok THEN [ok |-> TRUE, value |-> r.value, end |-> r.end - 1] ELSE DecodeError

\* json.loads(s): one value with nothing but blanks around it
json_loads(s) ==
  LET r == scan_once(s, skip_whitespace(s, 1)) IN
  IF r.ok /\ skip_whitespace(s, r.end) > Len(s) THEN r ELSE DecodeError

\* re.search(r'\{.*\}', response, re.DOTALL): from the first opening brace to
\* the last closing brace after it
re_search_braces(response) ==
  LET opens == {i \in 1..Len(response) : response[i] = "{"}
      closes == {i \in 1..Len(response) : response[i] = "}"}
  IN IF opens = {} \/ closes = {} THEN [found |-> FALSE, group |-> << >>]
     ELSE LET first == CHOOSE i \in opens : \A j \in opens : i <= j
              last == CHOOSE i \in closes : \A j \in closes : i >= j
          IN IF last > first
             THEN [found |-> TRUE, group |-> SubSeq(response, first, last)]
             ELSE [found |-> FALSE, group |-> << >>]

\* s.replace(old, "") for a non-empty old: every occurrence, left to right
RECURSIVE remove_all(_, _)
remove_all(s, old) ==
  IF Len(s) < Len(old) THEN s
  ELSE IF SubSeq(s, 1, Len(old)) = old
  THEN remove_all(SubSeq(s, Len(old) + 1, Len(s)), old)
  ELSE << Head(s) >> \o remove_all(Tail(s), old)

Parsed(content, decisions) ==
  [raised |-> FALSE, error |-> None, content |-> content, decisions |-> decisions]
AgentError(error) ==
  [raised |-> TRUE, error |-> error, content |-> JStr(<< >>), decisions |-> JDict(EmptyMap)]

\* the remainder of the reply taken without trimming it
content_of_untrimmed(parsed, response, json_str) ==
  LET content == IF << "content" >> \in DOMAIN parsed THEN parsed[<< "content" >>]
                 ELSE JStr(remove_all(response, json_str))
  IN IF json_truthy(content) THEN content ELSE JStr(response)

\* if "content" not in parsed: parsed["content"] = response.replace(json_str, "").strip()
\* if not parsed["content"]: parsed["content"] = response
content_of(parsed, response, json_str) ==
  LET content == IF << "content" >> \in DOMAIN parsed THEN parsed[<< "content" >>]
                 ELSE JStr(strip(remove_all(response, json_str)))
  IN IF json_truthy(content) THEN content ELSE JStr(response)

\* LangGraphEngine._parse_agent_response on the text of a reply
LangGraphEngine_parse_agent_response(response) ==
  LET json_match == re_search_braces(response) IN
  IF ~json_match.found THEN AgentError("no_json")
  ELSE
    LET decoded == json_loads(json_match.group) IN
    IF ~decoded.ok THEN AgentError("invalid_json")
    ELSE
      LET parsed == decoded.value.map IN
      IF << "decisions" >> \notin DOMAIN parsed THEN AgentError("missing_decisions")
      ELSE Parsed(content_of(parsed, response, json_match.group),
                  parsed[<< "decisions" >>])

\* for start in reversed(starts): the first start, from the right, at which an
\* object with a decisions key decodes
RECURSIVE scan_starts(_, _)
scan_starts(response, start) ==
  IF start < 1 THEN [found |-> FALSE, parsed |-> EmptyMap, json_str |-> << >>]
  ELSE IF response[start] # "{" THEN scan_starts(response, start - 1)
  ELSE
    LET r == raw_decode(SubSeq(response, start, Len(response))) IN
    IF r.ok /\ r.value.kind = "dict" /\ << "decisions" >> \in DOMAIN r.value.map
    THEN [found |-> TRUE, parsed |-> r.value.map,
          json_str |-> SubSeq(response, start, start + r.end - 1)]
    ELSE scan_starts(response, start - 1)

\* AgentService.parse_agent_response on the text of a reply
AgentService_parse_agent_response(response) ==
  LET scanned == scan_starts(response, Len(response)) IN
  IF scanned.found
  THEN Parsed(content_of(scanned.parsed, response, scanned.json_str),
              scanned.parsed[<< "decisions" >>])
  ELSE
    LET json_match == re_search_braces(response)
        decoded == json_loads(json_match.group)
    IN IF json_match.found /\ decoded.ok
       THEN LET parsed == decoded.value.map IN
            Parsed(IF << "content" >> \in DOMAIN parsed THEN parsed[<< "content" >>]
                   ELSE JStr(strip(remove_all(response, json_match.group))),
                   IF << "decisions" >> \in DOMAIN parsed THEN parsed[<< "decisions" >>]
                   ELSE JDict(EmptyMap))
       ELSE Parsed(JStr(response), JDict(EmptyMap))

\* --- reply texts: prose, then an object, then a tail
DecisionObject(flag) ==
  << "{", "\"decisions\"", ":", "{", "\"confirmed\"", ":", flag, "}", "}" >>
ContentObject(text) ==
  << "{", "\"content\"", ":", text, ",", " ", "\"decisions\"", ":", "{",
     "\"confirmed\"", ":", "true", "}", "}" >>

TextPrefixes ==
  {<< >>, << "word", " " >>, << "{", "word", "}", " " >>, << "{", " " >>,
   << "{", "}", " " >>, << "}", " " >>, DecisionObject("false") \o << " " >>}

TextObjects ==
  {<< >>, DecisionObject("true"), DecisionObject("false"),
   ContentObject("\"text\""), ContentObject("\"\""),
   << "{", "\"content\"", ":", "\"text\"", "}" >>,
   << "{", "\"decisions\"", ":", "}" >>,
   << "{", " ", "\"decisions\"", " ", ":", " ", "{", "}", " ", "}" >>,
   << "{", "\"text\"", ":" >> \o DecisionObject("false") \o << "}" >>}

TextSuffixes == {<< >>, << " " >>, << " ", "word" >>, << " ", "}" >>}

ReplyTexts == {p \o o \o s : p \in TextPrefixes, o \in TextObjects, s \in TextSuffixes}

ParseCalls ==
  {[op |-> o, response |-> t] :
     o \in {"_parse_agent_response", "parse_agent_response"}, t \in ReplyTexts}

\* ----------------------------------------------- workflow specifications
\* the agents and states sections a workflow file may carry
AgentLists ==
  {<< >>,
   << [name |-> "a", type |-> "coder"] >>,
   << [name |-> "a"] >>,
   << [type |-> "coder"] >>,
   << [name |-> "a", type |-> "reviewer"] >>,
   << [name |-> "a", type |-> "ask"], [name |-> "b", type |-> "architect"] >>,
   << [name |-> "a", type |-> "coder"], [name |-> "b"] >>}

StateLists ==
  {<< >>,
   << [name |-> "A", agent |-> "a"] >>,
   << [agent |-> "a"] >>,
   << [name |-> "A"] >>,
   << [name |-> "A", agent |-> "z"] >>,
   << [name |-> "A", agent |-> "a"], [name |-> "B", agent |-> "a", start |-> TRUE] >>,
   << [name |-> "A", agent |-> "a", start |-> TRUE],
      [name |-> "B", agent |-> "a", start |-> TRUE] >>}

\* yaml.safe_load(f) or {}: the mapping read from the workflow file
WorkflowFiles ==
  {n @@ a @@ t :
     n \in {EmptyMap, "name" :> "w"},
     a \in {EmptyMap} \cup {"agents" :> l : l \in AgentLists},
     t \in {EmptyMap} \cup {"states" :> l : l \in StateLists}}

\* no file is found for the workflow name
NoFile == "file" :> "not_found"

valid_types == {"coder", "architect", "ask"}

\* the loop over the agents, from entry i on
RECURSIVE validate_agents(_, _)
validate_agents(agents, i) ==
  IF i > Len(agents) THEN None
  ELSE IF "name" \notin DOMAIN agents[i] THEN "agent_without_name"
  ELSE IF (IF "type" \in DOMAIN agents[i] THEN agents[i].type ELSE "coder")
             \notin valid_types
  THEN "invalid_agent_type"
  ELSE validate_agents(agents, i + 1)

\* ConfigWorkflow._validate_config: None, or the message of the ValueError
validate_config(file) ==
  IF \E field \in {"name", "agents", "states"} : field \notin DOMAIN file
  THEN "missing_required_field"
  ELSE IF file.agents = << >> THEN "no_agent"
  ELSE IF validate_agents(file.agents, 1) # None THEN validate_agents(file.agents, 1)
  ELSE IF file.states = << >> THEN "no_state"
  ELSE IF \E i \in 1..Len(file.states) :
            "name" \notin DOMAIN file.states[i] \/ "agent" \notin DOMAIN file.states[i]
  THEN "state_without_name_or_agent"
  ELSE None

NoWorkflow == [kind |-> "none", name |-> ""]

\* ConfigWorkflow.__init__ -> _load_config
ConfigWorkflow_init(workflow_name, file) ==
  IF file = NoFile
  THEN [raised |-> TRUE, error |-> "FileNotFoundError", workflow |-> NoWorkflow]
  ELSE IF validate_config(file) # None
  THEN [raised |-> TRUE, error |-> "ValueError", workflow |-> NoWorkflow]
  ELSE [raised |-> FALSE, error |-> None,
        workflow |-> [kind |-> "config", name |-> workflow_name]]

\* WorkflowFactory.create: the config-driven workflow first, the registered
\* class when building it raised FileNotFoundError, ImportError or ValueError
WorkflowFactory_create(reg, workflow_name, file) ==
  LET config_workflow == ConfigWorkflow_init(workflow_name, file) IN
  IF ~config_workflow.raised THEN config_workflow
  ELSE IF workflow_name \notin reg
  THEN [raised |-> TRUE, error |-> "unknown_workflow_type", workflow |-> NoWorkflow]
  ELSE [raised |-> FALSE, error |-> None,
        workflow |-> [kind |-> "class", name |-> workflow_name]]

WorkflowNames == {"w", "v"}

CreateCalls ==
  {[op |-> "create", workflow_name |-> "w", file |-> f] :
     f \in WorkflowFiles \cup {NoFile}}

NotCreated ==
  [done |-> FALSE, raised |-> FALSE, error |-> None, workflow |-> NoWorkflow,
   executed |-> FALSE, first_state |-> None]

\* ------------------------------------------------------------ agent cache
MaxCalls == 3

WorkflowNameArgs == {"wf1", "wf2", None}
AgentNameArgs == {"coder", "reviewer"}
WorkspacePaths == {"ws1", "ws2"}

\* a cache key that leaves the workflow name out
generate_cache_key_shared(agent_name, workspace_path, workflow_name) ==
  << "default", ":", agent_name, ":", workspace_path >>

\* f"{workflow_name or 'default'}:{agent_name}:{workspace_path}"
generate_cache_key(agent_name, workspace_path, workflow_name) ==
  << IF workflow_name = None THEN "default" ELSE workflow_name, ":",
     agent_name, ":", workspace_path >>

\* the agent the factory creates next: instances are told apart by the order
\* of their creation
NewAgent == Len(created) + 1

\* AgentService.get_agent as one step: the cached agent, or a new one that is
\* stored under the key
get_agent(agent_name, workspace_path, workflow_name) ==
  LET cache_key == generate_cache_key(agent_name, workspace_path, workflow_name) IN
  IF cache_key \in DOMAIN active_agents
  THEN [agent |-> active_agents[cache_key], fresh |-> FALSE, cache_key |-> cache_key,
        active_agents |-> active_agents, created |-> created]
  ELSE [agent |-> NewAgent, fresh |-> TRUE, cache_key |-> cache_key,
        active_agents |-> (cache_key :> NewAgent) @@ active_agents,
        created |-> Append(created, cache_key)]

\* the contexts get_agent_for_workflow is called with: a workflow name and
\* the workspace of the workflow with its agent directories
Contexts ==
  {[workflow_name |-> w, workspace_path |-> p, agent_dirs |-> d] :
     w \in {"wf1", "wf2"}, p \in WorkspacePaths, d \in {AgentNameArgs, {"coder"}}}

Acquisition(r, agent_name, workspace_path, workflow_name) ==
  [cache_key |-> r.cache_key, workflow_name |-> workflow_name, agent_name |-> agent_name,
   workspace_path |-> workspace_path, agent |-> r.agent, fresh |-> r.fresh]

\* -------------------------------------------------------------------- model
Init ==
  /\ config \in Configs
  /\ pc = "init"
  /\ cur = ""
  /\ steps = 0
  /\ state = create_initial_state
  /\ result = NoResult
  /\ invocations = 0
  /\ failed_states = << >>
  /\ ok_steps = << >>
  /\ routed = EmptyMap
  /\ last_step = NoStep
  /\ end_reason = ""
  /\ workflow_result = NoWorkflowResult
  /\ call = NoCall
  /\ returned = NoReturn
  /\ ServiceInit

\* execute(): build the initial state and enter the graph at the start state;
\* the graph runtime refuses a recursion limit below 1
Execute ==
  /\ pc = "init"
  /\ state' = create_initial_state
  /\ IF recursion_limit(config) < 1
     THEN /\ pc' = "done"
          /\ cur' = cur
          /\ result' = ExceptionResult("invalid_recursion_limit", << >>)
          /\ end_reason' = "invalid_recursion_limit"
          /\ workflow_result' = ConfigWorkflow_execute(result')
     ELSE /\ pc' = "running"
          /\ cur' = get_start_state(config)
          /\ result' = result
          /\ end_reason' = end_reason
          /\ workflow_result' = workflow_result
  /\ UNCHANGED <<config, steps, invocations, failed_states, ok_steps, routed, last_step,
                 call, returned, service_vars>>

\* ConfigWorkflow.execute fails before the engine runs (setting up the
\* workspace raises): the except branch builds the result
WorkspaceSetupFails ==
  /\ pc = "init"
  /\ pc' = "aborted"
  /\ end_reason' = "setup_failed"
  /\ workflow_result' = ConfigWorkflow_execute_except("setup_failed")
  /\ UNCHANGED <<config, cur, steps, state, result, invocations, failed_states,
                 ok_steps, routed, last_step, call, returned, service_vars>>

\* one graph step: the agent node of cur, then the edge leaving it
GraphStep(outcome) ==
  /\ pc = "running"
  /\ LET state_config == StateConfig(config, cur)
         after == agent_node(state, state_config, outcome)
         route == Route(config, after, state_config)
         ok == StepOk(outcome)
     IN /\ state' = route.state
        /\ steps' = steps + 1
        /\ invocations' = invocations + 1
        /\ failed_states' = IF ok THEN failed_states ELSE Append(failed_states, cur)
        /\ ok_steps' = IF ok THEN Append(ok_steps, <<cur, state_config.agent>>) ELSE ok_steps
        /\ routed' = IF route.via = "transition" /\ route.target # END
                     THEN SetCount(routed, <<state_config.agent, route.target>>,
                                   GetCount(routed, <<state_config.agent, route.target>>) + 1)
                     ELSE routed
        /\ last_step' = [state |-> cur, agent |-> state_config.agent, ok |-> ok,
                         decisions |-> IF ok THEN outcome.reply.decisions ELSE EmptyMap,
                         via |-> route.via, idx |-> route.idx, target |-> route.target,
                         ctx |-> extract_agent_context(after)]
        /\ IF route.target = END
           THEN /\ pc' = "done"
                /\ cur' = cur
                /\ result' = build_result(route.state)
                /\ end_reason' = route.via
                /\ workflow_result' = ConfigWorkflow_execute(result')
           ELSE IF steps + 1 >= recursion_limit(config)
           THEN /\ pc' = "done"
                /\ cur' = cur
                /\ result' = ExceptionResult("recursion_limit", route.state.execution_history)
                /\ end_reason' = "recursion_limit"
                /\ workflow_result' = ConfigWorkflow_execute(result')
           ELSE /\ pc' = "running"
                /\ cur' = route.target
                /\ result' = result
                /\ end_reason' = end_reason
                /\ workflow_result' = workflow_result
  /\ UNCHANGED <<config, call, returned, service_vars>>

AnyReply == CHOOSE r \in BrokenReplies : TRUE

\* the agent returns a reply that carries a decision object
StepSucceeds == \E r \in ValidReplies : GraphStep([raises |-> FALSE, reply |-> r])

\* the agent returns a reply that strict parsing rejects
StepParseFails == \E r \in BrokenReplies : GraphStep([raises |-> FALSE, reply |-> r])

\* acquiring or running the agent raises
StepAgentRaises == GraphStep([raises |-> TRUE, reply |-> AnyReply])

Next == Execute \/ WorkspaceSetupFails \/ StepSucceeds \/ StepParseFails \/ StepAgentRaises

Spec == Init /\ [][Next]_vars

\* ------------------------------------------- the legacy evaluator, called
engine_vars == <<config, pc, cur, steps, state, result, invocations, failed_states,
                 ok_steps, routed, last_step, end_reason, workflow_result>>

\* one call of the evaluator, or of the transition loop of StateMachineEngine,
\* with arguments drawn from the bounded sets above
EvalInit ==
  /\ config = [name |-> LoopWorkflow.name, states |-> LoopWorkflow.states,
               exit_conditions |-> LoopWorkflow.exit_conditions,
               max_turns |-> MaxTurnsBound]
  /\ pc = "init"
  /\ cur = ""
  /\ steps = 0
  /\ state = create_initial_state
  /\ result = NoResult
  /\ invocations = 0
  /\ failed_states = << >>
  /\ ok_steps = << >>
  /\ routed = EmptyMap
  /\ last_step = NoStep
  /\ end_reason = ""
  /\ workflow_result = NoWorkflowResult
  /\ call \in EvaluateCalls \cup TransitionCalls
  /\ returned = NoReturn
  /\ ServiceInit

EvaluateCondition ==
  /\ call.op = "evaluate"
  /\ ~returned.done
  /\ LET r == ConditionEvaluator_evaluate(DefaultMaxTurns, call.condition_expr,
                                          call.agent_response, call.global_state)
     IN returned' = [done |-> TRUE, raised |-> r.raised, value |-> r.value,
                     target |-> ""]
  /\ UNCHANGED <<engine_vars, call, service_vars>>

EvaluateTransitions ==
  /\ call.op = "evaluate_transitions"
  /\ ~returned.done
  /\ LET r == evaluate_transitions(DefaultMaxTurns, call.transitions,
                                   call.agent_response, call.global_state)
     IN returned' = [done |-> TRUE, raised |-> r.raised, value |-> FALSE,
                     target |-> r.target]
  /\ UNCHANGED <<engine_vars, call, service_vars>>

EvalNext == EvaluateCondition \/ EvaluateTransitions

EvalSpec == EvalInit /\ [][EvalNext]_vars

\* one call of a reply parser on a text drawn from ReplyTexts
ParseInit ==
  /\ config = [name |-> LoopWorkflow.name, states |-> LoopWorkflow.states,
               exit_conditions |-> LoopWorkflow.exit_conditions,
               max_turns |-> MaxTurnsBound]
  /\ pc = "init"
  /\ cur = ""
  /\ steps = 0
  /\ state = create_initial_state
  /\ result = NoResult
  /\ invocations = 0
  /\ failed_states = << >>
  /\ ok_steps = << >>
  /\ routed = EmptyMap
  /\ last_step = NoStep
  /\ end_reason = ""
  /\ workflow_result = NoWorkflowResult
  /\ call \in ParseCalls
  /\ returned = NoReturn
  /\ ServiceInit

\* the step loop parses the reply
ParseStrict ==
  /\ call.op = "_parse_agent_response"
  /\ ~returned.done
  /\ returned' = [done |-> TRUE] @@ LangGraphEngine_parse_agent_response(call.response)
  /\ UNCHANGED <<engine_vars, call, service_vars>>

\* the agent service parses the reply
ParsePermissive ==
  /\ call.op = "parse_agent_response"
  /\ ~returned.done
  /\ returned' = [done |-> TRUE] @@ AgentService_parse_agent_response(call.response)
  /\ UNCHANGED <<engine_vars, call, service_vars>>

ParseNext == ParseStrict \/ ParsePermissive

ParseSpec == ParseInit /\ [][ParseNext]_vars

\* workflow classes are registered, then one workflow is created from its
\* file and, when create returned it, executed
FactoryInit ==
  /\ config = [name |-> LoopWorkflow.name, states |-> LoopWorkflow.states,
               exit_conditions |-> LoopWorkflow.exit_conditions,
               max_turns |-> MaxTurnsBound]
  /\ pc = "init"
  /\ cur = ""
  /\ steps = 0
  /\ state = create_initial_state
  /\ result = NoResult
  /\ invocations = 0
  /\ failed_states = << >>
  /\ ok_steps = << >>
  /\ routed = EmptyMap
  /\ last_step = NoStep
  /\ end_reason = ""
  /\ workflow_result = NoWorkflowResult
  /\ call \in CreateCalls
  /\ returned = NotCreated
  /\ ServiceInit

\* WorkflowFactory.register
Register ==
  /\ ~returned.done
  /\ \E workflow_name \in WorkflowNames : registry' = registry \cup {workflow_name}
  /\ UNCHANGED <<engine_vars, call, returned, active_agents, created, acquired, threads>>

\* WorkflowFactory.create(workflow_name, context)
Create ==
  /\ ~returned.done
  /\ LET r == WorkflowFactory_create(registry, call.workflow_name, call.file) IN
     returned' = [done |-> TRUE, raised |-> r.raised, error |-> r.error,
                  workflow |-> r.workflow, executed |-> FALSE, first_state |-> None]
  /\ UNCHANGED <<engine_vars, call, service_vars>>

\* the caller executes the workflow that create returned; the engine of a
\* config-driven workflow enters the graph at the start state of the file
ExecuteCreated ==
  /\ returned.done
  /\ ~returned.raised
  /\ ~returned.executed
  /\ returned' = [returned EXCEPT
                    !.executed = TRUE,
                    !.first_state = IF returned.workflow.kind = "config"
                                    THEN get_start_state(call.file) ELSE None]
  /\ UNCHANGED <<engine_vars, call, service_vars>>

FactoryNext == Register \/ Create \/ ExecuteCreated

FactorySpec == FactoryInit /\ [][FactoryNext]_vars

\* calls of the agent service, one after the other
CacheInit ==
  /\ config = [name |-> LoopWorkflow.name, states |-> LoopWorkflow.states,
               exit_conditions |-> LoopWorkflow.exit_conditions,
               max_turns |-> MaxTurnsBound]
  /\ pc = "init"
  /\ cur = ""
  /\ steps = 0
  /\ state = create_initial_state
  /\ result = NoResult
  /\ invocations = 0
  /\ failed_states = << >>
  /\ ok_steps = << >>
  /\ routed = EmptyMap
  /\ last_step = NoStep
  /\ end_reason = ""
  /\ workflow_result = NoWorkflowResult
  /\ call = NoCall
  /\ returned = NoReturn
  /\ ServiceInit

\* AgentService.get_agent(agent_name, root_path, workspace_info, workflow_name)
GetAgent ==
  /\ Len(acquired) < MaxCalls
  /\ Len(created) < MaxCalls
  /\ \E a \in AgentNameArgs, p \in WorkspacePaths, w \in WorkflowNameArgs :
       LET r == get_agent(a, p, w) IN
       /\ active_agents' = r.active_agents
       /\ created' = r.created
       /\ acquired' = Append(acquired, Acquisition(r, a, p, w))
  /\ UNCHANGED <<engine_vars, call, returned, registry, threads>>

\* AgentService.get_agent_for_workflow(agent_name, context): raises when the
\* workspace has no directory for the agent
GetAgentForWorkflow ==
  /\ Len(acquired) < MaxCalls
  /\ Len(created) < MaxCalls
  /\ \E a \in AgentNameArgs, context \in Contexts :
       IF a \notin context.agent_dirs
       THEN UNCHANGED <<active_agents, created, acquired>>
       ELSE LET r == get_agent(a, context.workspace_path, context.workflow_name) IN
            /\ active_agents' = r.active_agents
            /\ created' = r.created
            /\ acquired' = Append(acquired, Acquisition(r, a, context.workspace_path,
                                                        context.workflow_name))
  /\ UNCHANGED <<engine_vars, call, returned, registry, threads>>

\* AgentService.clear_agents_for_workflow(workflow_name): the keys that start
\* with the workflow name are dropped; the history keeps the acquisitions
\* whose key is still cached
ClearAgents ==
  /\ \E w \in {"wf1", "wf2"} :
       /\ active_agents' = [k \in {k \in DOMAIN active_agents : ~startswith(k, << w, ":" >>)}
                              |-> active_agents[k]]
       /\ acquired' = SelectSeq(acquired, LAMBDA c : ~startswith(c.cache_key, << w, ":" >>))
  /\ UNCHANGED <<engine_vars, call, returned, registry, created, threads>>

CacheNext == GetAgent \/ GetAgentForWorkflow \/ ClearAgents

CacheSpec == CacheInit /\ [][CacheNext]_vars

\* --- get_agent called from several threads: the statements of the method
\* interleave, nothing in AgentService serialises them
NumThreads == 2
Threads == 1..NumThreads

ThreadCalls ==
  {[pc |-> "lookup", agent_name |-> a, workspace_path |-> "ws1", workflow_name |-> w,
    agent |-> 0] : a \in AgentNameArgs, w \in {"wf1", "wf2"}}

ThreadKey(t) ==
  generate_cache_key(threads[t].agent_name, threads[t].workspace_path,
                     threads[t].workflow_name)

ThreadInit ==
  /\ config = [name |-> LoopWorkflow.name, states |-> LoopWorkflow.states,
               exit_conditions |-> LoopWorkflow.exit_conditions,
               max_turns |-> MaxTurnsBound]
  /\ pc = "init"
  /\ cur = ""
  /\ steps = 0
  /\ state = create_initial_state
  /\ result = NoResult
  /\ invocations = 0
  /\ failed_states = << >>
  /\ ok_steps = << >>
  /\ routed = EmptyMap
  /\ last_step = NoStep
  /\ end_reason = ""
  /\ workflow_result = NoWorkflowResult
  /\ call = NoCall
  /\ returned = NoReturn
  /\ registry = {}
  /\ active_agents = EmptyMap
  /\ created = << >>
  /\ acquired = << >>
  /\ threads \in [Threads -> ThreadCalls]

\* if cache_key in self._active_agents: return self._active_agents[cache_key]
Lookup(t) ==
  /\ threads[t].pc = "lookup"
  /\ IF ThreadKey(t) \in DOMAIN active_agents
     THEN /\ threads' = [threads EXCEPT ![t].pc = "done",
                                        ![t].agent = active_agents[ThreadKey(t)]]
          /\ acquired' = Append(acquired,
                                [cache_key |-> ThreadKey(t),
                                 workflow_name |-> threads[t].workflow_name,
                                 agent_name |-> threads[t].agent_name,
                                 workspace_path |-> threads[t].workspace_path,
                                 agent |-> active_agents[ThreadKey(t)], fresh |-> FALSE])
     ELSE /\ threads' = [threads EXCEPT ![t].pc = "create"]
          /\ acquired' = acquired
  /\ UNCHANGED <<engine_vars, call, returned, registry, active_agents, created>>

\* directories, file list, git, then self._agent_factory.create_coder(...)
CreateAgent(t) ==
  /\ threads[t].pc = "create"
  /\ threads' = [threads EXCEPT ![t].pc = "store", ![t].agent = NewAgent]
  /\ created' = Append(created, ThreadKey(t))
  /\ UNCHANGED <<engine_vars, call, returned, registry, active_agents, acquired>>

\* self._active_agents[cache_key] = agent; return agent
Store(t) ==
  /\ threads[t].pc = "store"
  /\ active_agents' = [k \in DOMAIN active_agents \cup {ThreadKey(t)} |->
                         IF k = ThreadKey(t) THEN threads[t].agent ELSE active_agents[k]]
  /\ threads' = [threads EXCEPT ![t].pc = "done"]
  /\ acquired' = Append(acquired,
                        [cache_key |-> ThreadKey(t),
                         workflow_name |-> threads[t].workflow_name,
                         agent_name |-> threads[t].agent_name,
                         workspace_path |-> threads[t].workspace_path,
                         agent |-> threads[t].agent, fresh |-> TRUE])
  /\ UNCHANGED <<engine_vars, call, returned, registry, created>>

ThreadNext == \E t \in Threads : Lookup(t) \/ CreateAgent(t) \/ Store(t)

ThreadSpec == ThreadInit /\ [][ThreadNext]_vars

\* ------------------------------------------------------------ helper views
IsPrefix(s1, s2) == Len(s1) <= Len(s2) /\ SubSeq(s2, 1, Len(s1)) = s1

AgentNames(cfg) == {cfg.states[i].agent : i \in 1..Len(cfg.states)}
StateNames(cfg) == {cfg.states[i].name : i \in 1..Len(cfg.states)}

\* no transition targets the terminal marker, every state ends its transition
\* list with an unconditional one, and no exit condition is declared
BusinessExitUnreachable(cfg) ==
  /\ Len(cfg.exit_conditions) = 0
  /\ \A i \in 1..Len(cfg.states) :
       LET transitions == StateTransitions(cfg.states[i]) IN
       /\ Len(transitions) > 0
       /\ TransitionCondition(transitions[Len(transitions)]) = <<"true">>
       /\ \A j \in 1..Len(transitions) : TransitionTarget(transitions[j]) # END

\* the transitions of the state the last step executed
LastTransitions == StateTransitions(StateConfig(config, last_step.state))

\* condition j of the last executed state, as the router saw it
LastConditionHolds(j) ==
  evaluate(config.max_turns, TransitionCondition(LastTransitions[j]),
           last_step.ctx.agent_response, last_step.ctx.condition_state,
           last_step.ctx.system_state)

\* ------------------------------------------------------------------ claims

\* C1: execute returns a result after at most 3 x max_turns graph steps,
\* whatever the agents do; no run goes on forever: every agent invocation is
\* a counted step, the count never passes the ceiling, a running graph is
\* strictly below it, and a run that has not returned stands at a declared
\* state, where the next step can be taken.
C1_ReturnsWithinCeiling ==
  /\ steps <= 3 * config.max_turns
  /\ invocations = steps
  /\ (pc = "running" => steps < 3 * config.max_turns)
  /\ (pc = "done" => result # NoResult)
  /\ (pc = "running" => cur \in StateNames(config))
  /\ pc \in {"init", "running", "done", "aborted"}

\* C1 witness: the unconditional self-loop is cut off at the ceiling.
C1_Witness ==
  /\ pc = "done"
  /\ config.name = "loop"
  /\ config.max_turns = 2
  /\ end_reason = "recursion_limit"
  /\ steps = 6

\* C2: once a step has failed at state S the run has ended at S: nothing is
\* invoked afterwards, the call is not repeated, error is set and
\* error_state = S.
C2_RunEndsAtFailedState ==
  failed_states # << >> =>
    /\ pc = "done"
    /\ Len(failed_states) = 1
    /\ last_step.state = failed_states[1]
    /\ ~last_step.ok
    /\ state.error # None
    /\ state.error_state = failed_states[1]

\* C3: a run with a failed step, or one stopped by the step ceiling, returns
\* success = false, whatever was executed after the failure.
C3_FailureNeverSuccess ==
  (pc = "done" /\ (failed_states # << >> \/ end_reason = "recursion_limit"))
    => result.success = FALSE

\* C3 witness: a failed step followed by a successful one, and a normal end.
C3_Witness ==
  /\ pc = "done"
  /\ failed_states # << >>
  /\ last_step.ok
  /\ end_reason \in {"transition", "global_exit"}
  /\ result.success = FALSE

C5_ExitCheckedBeforeInvocation ==
  [][invocations' > invocations => ~check_global_exit_conditions(config, state)]_vars

\* C6 as stated: max_turns = 2, business exit unreachable, all replies valid:
\* the run ends within 3 x 2 steps with success = false.
C6_CeilingUnsuccessful ==
  (pc = "done" /\ config.max_turns = 2 /\ BusinessExitUnreachable(config)
     /\ failed_states = << >>)
    => (steps <= 6 /\ result.success = FALSE)

\* C6 amended: max_turns = 2, business exit unreachable, all replies valid:
\* the run ends after exactly 2 steps through the max_turns exit check, with
\* total_turns = 2 and success = true.
C6_TurnBudgetEndsRun ==
  (pc = "done" /\ config.max_turns = 2 /\ BusinessExitUnreachable(config)
     /\ failed_states = << >>)
    => /\ steps = 2
       /\ end_reason = "global_exit"
       /\ result.total_turns = 2
       /\ result.success = TRUE

\* C6 witness: the self-loop run with two valid replies has returned.
C6_Witness ==
  /\ pc = "done"
  /\ config.max_turns = 2
  /\ BusinessExitUnreachable(config)
  /\ failed_states = << >>
  /\ Len(ok_steps) = 2

\* C7: every per-edge counter equals the number of routing decisions that
\* selected its target from a state of its agent; no counter exists for the
\* terminal marker or for any other key.
C7_EdgeCountersMatchRouting ==
  /\ \A a \in AgentNames(config) : \A t \in StateNames(config) :
       GetCount(state.turn_counts, turn_count_key(a, t)) = GetCount(routed, <<a, t>>)
  /\ DOMAIN state.turn_counts \subseteq
       {turn_count_key(a, t) : a \in AgentNames(config), t \in StateNames(config)}

\* C8: execution_history and agent_responses have total_turns entries, entry
\* i records total_turns = i and the state and agent of the i-th executed
\* step, and both lists only ever grow at the end.
C8_HistoryAppendOnly ==
  /\ [](/\ Len(state.execution_history) = state.total_turns
        /\ Len(state.agent_responses) = state.total_turns
        /\ Len(ok_steps) = state.total_turns
        /\ \A i \in 1..Len(state.execution_history) :
             /\ state.execution_history[i].total_turns = i
             /\ state.execution_history[i].state = ok_steps[i][1]
             /\ state.execution_history[i].agent = ok_steps[i][2]
             /\ state.agent_responses[i].state = ok_steps[i][1]
             /\ state.agent_responses[i].agent = ok_steps[i][2])
  /\ [][/\ IsPrefix(state.execution_history, state'.execution_history)
        /\ IsPrefix(state.agent_responses, state'.agent_responses)]_vars

\* C8 witness: two entries, with a failed step somewhere in the run.
C8_Witness ==
  /\ Len(state.execution_history) = 2
  /\ failed_states # << >>
  /\ state.execution_history[2].total_turns = 2

\* C9: after a successful step the decisions are exactly those of its reply,
\* and the router of that step sees only them: a key of an earlier reply
\* that the latest reply lacks is undefined for every transition condition
\* and satisfies none.
C9_DecisionsOverwritten ==
  last_step.ok =>
    /\ state.decisions = last_step.decisions
    /\ last_step.ctx.agent_response.decisions = last_step.decisions
    /\ \A f \in Flags \ DOMAIN last_step.decisions :
         Resolve(f, last_step.ctx.agent_response.decisions,
                 last_step.ctx.condition_state) = Undefined
    /\ \A f \in Flags :
         (last_step.via = "transition"
            /\ TransitionCondition(LastTransitions[last_step.idx]) = <<f>>)
           => (f \in DOMAIN last_step.decisions /\ last_step.decisions[f])

\* C9 witness: confirmed was true in the first reply, the second reply has
\* no such key, and the router of the second step took NOT confirmed.
C9_Witness ==
  /\ config.name = "relay"
  /\ last_step.ok
  /\ last_step.state = "B"
  /\ Len(state.execution_history) = 2
  /\ "confirmed" \in DOMAIN state.execution_history[1].decisions
  /\ state.execution_history[1].decisions["confirmed"]
  /\ "confirmed" \notin DOMAIN state.decisions
  /\ last_step.via = "transition"
  /\ last_step.idx = 1
  /\ last_step.target = "A"

\* C10: a failed step appends nothing, leaves total_turns alone, and leaves
\* last_agent, last_content and decisions as they were.
C10_FailedStepCommitsNothing ==
  [][Len(failed_states') > Len(failed_states) =>
       /\ state'.execution_history = state.execution_history
       /\ state'.agent_responses = state.agent_responses
       /\ state'.total_turns = state.total_turns
       /\ state'.last_agent = state.last_agent
       /\ state'.last_content = state.last_content
       /\ state'.decisions = state.decisions]_vars

\* C10 witness: a step failed after an earlier one had committed decisions.
C10_Witness ==
  /\ failed_states # << >>
  /\ ~last_step.ok
  /\ last_step.state # ""
  /\ state.total_turns = 1
  /\ state.decisions # EmptyMap
  /\ state.last_agent # ""

\* C7 restricted to runs without a failed step
C7_EdgeCountersMatchRoutingNoFailure ==
  failed_states = << >> => C7_EdgeCountersMatchRouting
\* C11: when a step of the run has failed, ConfigWorkflow.execute returns a
\* WorkflowResult with success = false and a non-empty error_message that
\* describes the failure.
C11_StepFailureReported ==
  (pc = "done" /\ failed_states # << >>) =>
    /\ workflow_result.success = FALSE
    /\ workflow_result.error_message \notin {None, "", "not_returned"}

\* C12: however the run ends, the total_turns of the returned result is the
\* number of states whose agent call and response parse both succeeded.
C12_TotalTurnsCountsSuccessfulSteps ==
  pc = "done" => result.total_turns = Len(ok_steps)

\* the decisions recorded for step i of the run
Refused(i) == state.execution_history[i].decisions = [f \in {"confirmed"} |-> FALSE]
Confirmed(i) == state.execution_history[i].decisions = [f \in {"confirmed"} |-> TRUE]

\* C13: in the ask workflow, while every reply so far carries confirmed =
\* false and the turn budget is not used up the run goes on at ask; once the
\* replies were false k-1 times and true at step k, the run has completed in
\* exactly k steps, k <= max_turns, with total_turns = k and success = true.
C13_AskUntilConfirmed ==
  (config.name = "ask" /\ failed_states = << >> /\ pc \in {"running", "done"}) =>
    LET k == Len(state.execution_history) IN
    /\ ((\A i \in 1..k : Refused(i)) /\ k < config.max_turns)
         => (pc = "running" /\ cur = "ask" /\ steps = k)
    /\ (k >= 1 /\ (\A i \in 1..(k - 1) : Refused(i)) /\ Confirmed(k))
         => /\ pc = "done"
            /\ steps = k
            /\ k <= config.max_turns
            /\ result.total_turns = k
            /\ result.success = TRUE

\* C13 witness: replies false then true, the run completed in 2 steps.
C13_Witness ==
  /\ config.name = "ask"
  /\ config.max_turns = 3
  /\ failed_states = << >>
  /\ Len(state.execution_history) = 2
  /\ Refused(1)
  /\ Confirmed(2)
  /\ pc = "done"
  /\ steps = 2
  /\ result.total_turns = 2
  /\ result.success = TRUE

\* C14: when no transition of the executed state is satisfied, or the state
\* declares none, the run has moved to the terminal state: it is over, no
\* agent is invoked afterwards, and with no error recorded success = true.
C14_NoMatchEndsRun ==
  /\ [](last_step.via \in {"no_match", "edge"} =>
          /\ pc = "done"
          /\ last_step.target = END
          /\ end_reason = last_step.via
          /\ (last_step.via = "edge" => Len(LastTransitions) = 0)
          /\ (last_step.via = "no_match" =>
                /\ Len(LastTransitions) > 0
                /\ \A j \in 1..Len(LastTransitions) : ~LastConditionHolds(j))
          /\ (state.error = None => result.success = TRUE))
  /\ [][pc = "done" => invocations' = invocations]_vars

\* C14 witness: confirmed = false left the only transition of A unsatisfied.
C14_Witness ==
  /\ config.name = "gate"
  /\ last_step.state = "A"
  /\ last_step.ok
  /\ last_step.via = "no_match"
  /\ pc = "done"
  /\ invocations = 1
  /\ result.success = TRUE

\* ------------------------------------------- claims on the evaluator calls
Evaluated == returned.done /\ call.op = "evaluate"
CallExpr == strip(call.condition_expr)
CallDecisions == legacy_decisions(call.agent_response)

\* C15: a transition without a condition is unconditional, and the
\* evaluator returns true for true, always, the empty and the blank string,
\* false for false and never, whatever the decision and state maps are.
C15_LiteralsAndDefaultCondition ==
  /\ (Evaluated /\ CallExpr \in {Str_empty, Str_true, Str_always})
       => (~returned.raised /\ returned.value)
  /\ (Evaluated /\ CallExpr \in {Str_false, Str_never})
       => (~returned.raised /\ ~returned.value)
  /\ (returned.done /\ call.op = "evaluate_transitions" /\ Len(call.transitions) > 0
        /\ "condition" \notin DOMAIN call.transitions[1])
       => (~returned.raised /\ returned.target = call.transitions[1].to)

\* a, b and c are bound to booleans by the decisions of the call
BooleansBound ==
  /\ CallDecisions.kind = "dict"
  /\ \A name \in {Str_a, Str_b, Str_c} :
       name \in DOMAIN CallDecisions.map /\ CallDecisions.map[name].t = "bool"

BoundBoolean(name) == CallDecisions.map[name].b

\* C16: over identifiers bound to booleans the evaluator follows boolean
\* algebra with NOT > AND > OR and parentheses: a OR b AND c is
\* a OR (b AND c), NOT a AND NOT b is (NOT a) AND (NOT b).
C16_BooleanAlgebra ==
  (Evaluated /\ BooleansBound) =>
    /\ ~returned.raised
    /\ CallExpr = Str_not_a => returned.value = ~BoundBoolean(Str_a)
    /\ CallExpr = Str_a_and_b
         => returned.value = (BoundBoolean(Str_a) /\ BoundBoolean(Str_b))
    /\ CallExpr = Str_a_or_b
         => returned.value = (BoundBoolean(Str_a) \/ BoundBoolean(Str_b))
    /\ CallExpr = Str_a_or_b_and_c
         => returned.value =
              (BoundBoolean(Str_a) \/ (BoundBoolean(Str_b) /\ BoundBoolean(Str_c)))
    /\ CallExpr = Str_not_a_and_not_b
         => returned.value = (~BoundBoolean(Str_a) /\ ~BoundBoolean(Str_b))
    /\ CallExpr = Str_paren_a_or_b_and_c
         => returned.value =
              ((BoundBoolean(Str_a) \/ BoundBoolean(Str_b)) /\ BoundBoolean(Str_c))

\* turn_count is bound to a number by the state map of the call only
NumberBound ==
  /\ CallDecisions.kind = "dict"
  /\ Str_turn_count \notin DOMAIN CallDecisions.map
  /\ Str_turn_count \in DOMAIN call.global_state
  /\ IsNumber(call.global_state[Str_turn_count])

BoundNumber == NumberOf(call.global_state[Str_turn_count])

\* C17: with turn_count bound to v, turn_count op 10 is (v op 10) for each
\* of ==, !=, >, >=, <, <=, and turn_count < 10 < 20 is
\* (v < 10) AND (10 < 20).
C17_Comparisons ==
  (Evaluated /\ NumberBound) =>
    /\ CallExpr = Str_turn_count_eq_10 => returned.value = (BoundNumber = 10)
    /\ CallExpr = Str_turn_count_ne_10 => returned.value = (BoundNumber # 10)
    /\ CallExpr = Str_turn_count_gt_10 => returned.value = (BoundNumber > 10)
    /\ CallExpr = Str_turn_count_ge_10 => returned.value = (BoundNumber >= 10)
    /\ CallExpr = Str_turn_count_lt_10 => returned.value = (BoundNumber < 10)
    /\ CallExpr = Str_turn_count_le_10 => returned.value = (BoundNumber <= 10)
    /\ CallExpr = Str_turn_count_lt_10_lt_20
         => returned.value = (BoundNumber < 10 /\ 10 < 20)

\* C18: an identifier takes its value from the decisions, else from the
\* state map, else it is undefined: with decisions {x: 100} and state {x: 5},
\* x == 100 is true and x == 5 false; with x in neither map, x and x == true
\* are false.
C18_DecisionsShadowState ==
  Evaluated =>
    /\ (CallDecisions = DictValue(Str_x :> PyInt(100))
          /\ call.global_state = (Str_x :> PyInt(5)))
         => /\ CallExpr = Str_x_eq_100 => (~returned.raised /\ returned.value)
            /\ CallExpr = Str_x_eq_5 => (~returned.raised /\ ~returned.value)
    /\ (CallDecisions.kind = "dict" /\ Str_x \notin DOMAIN CallDecisions.map
          /\ Str_x \notin DOMAIN call.global_state
          /\ CallExpr \in {Str_x, Str_x_eq_true})
         => (~returned.raised /\ ~returned.value)

\* C19: a bare identifier whose decision is a string is true for "true",
\* "1", "yes" and false for "false", "0", "no", in any letter case.
C19_StringDecisionByContent ==
  (Evaluated /\ CallExpr = Str_flag /\ CallDecisions.kind = "dict"
     /\ Str_flag \in DOMAIN CallDecisions.map
     /\ CallDecisions.map[Str_flag].t = "str") =>
    /\ lower(CallDecisions.map[Str_flag].s) \in {Str_true, Str_1, Str_yes}
         => (~returned.raised /\ returned.value)
    /\ lower(CallDecisions.map[Str_flag].s) \in {Str_false, Str_0, Str_no}
         => (~returned.raised /\ ~returned.value)

\* the raw expression looked up as one flag, in the decisions and the state
FlagLookup(expr) ==
  IF CallDecisions.kind = "dict" /\ expr \in DOMAIN CallDecisions.map
  THEN py_bool(CallDecisions.map[expr])
  ELSE py_bool(dict_get(call.global_state, expr, PyBool(FALSE)))

\* C20: for every expression, malformed ones included, and every decision
\* and state map, a null or non-mapping decisions value included, evaluate
\* returns a boolean and does not raise; a malformed expression is the
\* lookup of the raw expression as a single flag.
C20_EvaluateNeverRaises ==
  returned.done =>
    /\ ~returned.raised
    /\ (call.op = "evaluate" /\ CallExpr \in MalformedExprs)
         => returned.value = FlagLookup(CallExpr)
\* the turn counter the evaluator reads: global_state.get("turn_count", 0)
CallTurnCount == NumberOf(dict_get(call.global_state, Str_turn_count, PyInt(0)))

\* C21: max_turns_exceeded is true exactly when the turn counter of the run
\* is at least max_turns (true at max_turns, false at max_turns - 1), and a
\* decision named max_turns_exceeded does not change the result.
C21_MaxTurnsExceeded ==
  (Evaluated /\ CallExpr = Str_max_turns_exceeded) =>
     /\ ~returned.raised
     /\ returned.value = (CallTurnCount >= DefaultMaxTurns)
     /\ (CallTurnCount = DefaultMaxTurns => returned.value)
     /\ (CallTurnCount = DefaultMaxTurns - 1 => ~returned.value)

\* the counter is at max_turns, the reply decides max_turns_exceeded = false,
\* and the keyword is true all the same
C21_Witness ==
  /\ Evaluated
  /\ CallExpr = Str_max_turns_exceeded
  /\ CallTurnCount = DefaultMaxTurns
  /\ CallDecisions.kind = "dict"
  /\ Str_max_turns_exceeded \in DOMAIN CallDecisions.map
  /\ CallDecisions.map[Str_max_turns_exceeded] = PyBool(FALSE)
  /\ returned.value

\* ------------------------------------------------- claims on reply parsing
ParsedReply == returned.done /\ call.op \in {"_parse_agent_response", "parse_agent_response"}

\* the value that decodes at opening brace i of a text
DecodeAt(text, i) == raw_decode(SubSeq(text, i, Len(text)))

\* the opening braces at which a mapping with a decisions key decodes
Candidates(text) ==
  {i \in 1..Len(text) :
     /\ text[i] = "{"
     /\ DecodeAt(text, i).ok
     /\ DecodeAt(text, i).value.kind = "dict"
     /\ << "decisions" >> \in DOMAIN DecodeAt(text, i).value.map}

LatestCandidate(text) ==
  CHOOSE i \in Candidates(text) : \A j \in Candidates(text) : i >= j

\* C22: when some opening brace of the reply starts a mapping with a
\* decisions key, the parser (the strict one of the step loop and the
\* permissive one) succeeds and returns the decisions of the candidate that
\* starts latest, whatever braces or objects stand earlier in the text.
C22_LatestCandidateWins ==
  (ParsedReply /\ Candidates(call.response) # {}) =>
     /\ ~returned.raised
     /\ returned.decisions =
          DecodeAt(call.response, LatestCandidate(call.response)).value.map[<< "decisions" >>]

\* the text holds exactly one decisions object, it carries no content field
\* and it ends the text
TrailingObject(text) ==
  /\ Cardinality(Candidates(text)) = 1
  /\ LatestCandidate(text) + DecodeAt(text, LatestCandidate(text)).end - 1 = Len(text)
  /\ << "content" >> \notin DOMAIN DecodeAt(text, LatestCandidate(text)).value.map

\* the text before the trailing object, trimmed
TextBeforeObject(text) == strip(SubSeq(text, 1, LatestCandidate(text) - 1))

TrailingDecisions(text) ==
  DecodeAt(text, LatestCandidate(text)).value.map[<< "decisions" >>]

MatchedSpan(text, op) ==
  IF op = "_parse_agent_response" THEN re_search_braces(text).group
  ELSE SubSeq(text, LatestCandidate(text),
              LatestCandidate(text) + DecodeAt(text, LatestCandidate(text)).end - 1)

MatchedObject(text, op) == raw_decode(MatchedSpan(text, op)).value.map

\* C24: when a decision object is found, content is the object's content
\* field if present and non-empty; otherwise the reply with the matched
\* object removed, trimmed; and the whole reply only if that is empty too.
C24_ContentOrder ==
  (ParsedReply /\ ~returned.raised /\ Candidates(call.response) # {}) =>
     LET object == MatchedObject(call.response, call.op)
         remainder == strip(remove_all(call.response, MatchedSpan(call.response, call.op)))
     IN returned.content =
          IF << "content" >> \in DOMAIN object /\ json_truthy(object[<< "content" >>])
          THEN object[<< "content" >>]
          ELSE IF remainder # << >> THEN JStr(remainder)
          ELSE JStr(call.response)

\* ------------------------------------------- claims on the step loop, again
\* the errors the strict parse of a reply ends in
ParseErrors == {"no_json", "invalid_json", "missing_decisions"}

\* C25: when the reply of a step holds no object with a decisions key, the
\* failure is recorded as the error of that step, and the route leaving the
\* step is not decided by evaluating conditions against an empty decision map.
C25_ParseFailureNotRouted ==
  (last_step.state # "" /\ ~last_step.ok /\ state.error \in ParseErrors) =>
     /\ state.error_state = last_step.state
     /\ ~(/\ last_step.via \in {"transition", "no_match"}
          /\ last_step.ctx.agent_response.decisions = EmptyMap)

\* ------------------------------------------ claims on workflow creation
Created == returned.done /\ call.op = "create"

\* the defects of a workflow file that the claim lists
MissingSection(file) == \E field \in {"name", "agents", "states"} : field \notin DOMAIN file

Defective(file) ==
  \/ MissingSection(file)
  \/ file.agents = << >>
  \/ file.states = << >>
  \/ \E i \in 1..Len(file.agents) :
       \/ "name" \notin DOMAIN file.agents[i]
       \/ "type" \in DOMAIN file.agents[i] /\ file.agents[i].type \notin valid_types
  \/ \E i \in 1..Len(file.states) :
       "name" \notin DOMAIN file.states[i] \/ "agent" \notin DOMAIN file.states[i]

\* C26: a workflow file with one of the listed defects is rejected by
\* WorkflowFactory.create: the call raises, returns no workflow, and nothing
\* is executed in its place.
C26_DefectiveSpecRejected ==
  (Created /\ call.file # NoFile /\ Defective(call.file)) =>
     /\ returned.raised
     /\ returned.workflow = NoWorkflow
     /\ ~returned.executed

\* C27: a workflow file that passes validation, so that a config-driven
\* workflow is created from it and run, names a declared agent in every state
\* and flags at most one state as start.
C27_ValidatedSpecWellFormed ==
  (Created /\ ~returned.raised /\ returned.workflow.kind = "config") =>
     /\ \A i \in 1..Len(call.file.states) :
          \E j \in 1..Len(call.file.agents) :
            call.file.states[i].agent = call.file.agents[j].name
     /\ Cardinality({i \in 1..Len(call.file.states) : StartFlag(call.file.states[i])}) <= 1

\* ---------------------------------------------- claims on the agent cache
SameTriple(c, d) ==
  /\ c.workflow_name = d.workflow_name
  /\ c.agent_name = d.agent_name
  /\ c.workspace_path = d.workspace_path

\* C28: between cache clears two acquisitions return the same agent exactly
\* when they agree on workflow name, agent name and workspace path, and the
\* factory is called once per triple: by the first acquisition of the triple
\* and by no later one.
C28_OneAgentPerTriple ==
  \A i \in 1..Len(acquired), j \in 1..Len(acquired) :
     /\ (acquired[i].agent = acquired[j].agent) <=> SameTriple(acquired[i], acquired[j])
     /\ acquired[i].fresh <=> (\A k \in 1..(i - 1) : ~SameTriple(acquired[k], acquired[i]))

\* one agent is acquired twice in a workflow, and the agent of the same name
\* in another workflow is a different instance
C28_Witness ==
  /\ Len(acquired) = 3
  /\ SameTriple(acquired[1], acquired[2])
  /\ acquired[1].agent = acquired[2].agent
  /\ acquired[3].agent_name = acquired[1].agent_name
  /\ acquired[3].workspace_path = acquired[1].workspace_path
  /\ acquired[3].workflow_name # acquired[1].workflow_name
  /\ acquired[3].agent # acquired[1].agent
  /\ Len(created) = 2

\* C29: when threads call get_agent at the same time for one key that is not
\* cached, the factory creates at most one agent for the key and the callers
\* receive the same instance.
C29_NoDuplicateAgents ==
  /\ \A i \in 1..Len(created), j \in 1..Len(created) : created[i] = created[j] => i = j
  /\ \A t \in DOMAIN threads, u \in DOMAIN threads :
       (threads[t].pc = "done" /\ threads[u].pc = "done" /\ ThreadKey(t) = ThreadKey(u))
         => threads[t].agent = threads[u].agent

\* the states of the file that carry a true start flag
Flagged(file) == {i \in 1..Len(file.states) : StartFlag(file.states[i])}

\* C30: the first state a run executes is the first declared state whose
\* start flag is true, and the first declared state when none is flagged.
C30_StartState ==
  (Created /\ returned.executed /\ returned.workflow.kind = "config") =>
     /\ Flagged(call.file) # {} =>
          \E i \in Flagged(call.file) :
            /\ \A j \in Flagged(call.file) : i <= j
            /\ returned.first_state = call.file.states[i].name
     /\ Flagged(call.file) = {} => returned.first_state = call.file.states[1].name

\* the second declared state is the only flagged one, and the run starts there
C30_Witness ==
  /\ Created
  /\ returned.executed
  /\ returned.workflow.kind = "config"
  /\ Flagged(call.file) = {2}
  /\ returned.first_state = call.file.states[2].name

\* ------------------------------------------------------------------ C31
\* C31: the agents_used of a returned result are exactly the agents of the
\* run's execution history (the agents with at least one successful step),
\* however the run ended
OkAgents == {ok_steps[i][2] : i \in 1..Len(ok_steps)}

idle_vars == <<config, pc, cur, result, invocations, failed_states, ok_steps, routed,
               last_step, end_reason, workflow_result, service_vars>>

IdleInit ==
  /\ config = [name |-> LoopWorkflow.name, states |-> LoopWorkflow.states,
               exit_conditions |-> LoopWorkflow.exit_conditions,
               max_turns |-> MaxTurnsBound]
  /\ pc = "init"
  /\ cur = ""
  /\ result = NoResult
  /\ invocations = 0
  /\ failed_states = << >>
  /\ ok_steps = << >>
  /\ routed = EmptyMap
  /\ last_step = NoStep
  /\ end_reason = ""
  /\ workflow_result = NoWorkflowResult
  /\ ServiceInit

\* ------------------------------------------- router with an evaluator that
\* may raise.  The evaluator is a collaborator handed to the engine; what one
\* evaluation does is one of three outcomes
MaxRoutes == 2
RouteMaxTurns == 1
EvalOutcomes == {"true", "false", "raise"}
RouteAgents == {"a", "a_b"}
RouteTargets == {"c", "b_c", END}
TargetLists == {<<t, u>> : t, u \in RouteTargets}
OutcomeLists(n) == [1..n -> EvalOutcomes]
ExitOutcomeLists ==
  {<< >>} \cup OutcomeLists(1) \cup {<<"raise", "true">>, <<"raise", "false">>}

\* the loop over exit_conditions: try evaluate, except log and go on
RECURSIVE exit_loop(_, _)
exit_loop(exits, i) ==
  IF i > Len(exits) THEN FALSE
  ELSE IF exits[i] = "true" THEN TRUE
  ELSE exit_loop(exits, i + 1)

\* _check_global_exit_conditions(state) over evaluation outcomes
check_exit_outcomes(max_turns, st, exits) ==
  IF st.total_turns >= max_turns THEN TRUE ELSE exit_loop(exits, 1)

\* a transition loop without the try/except: the exception leaves the loop
RECURSIVE transition_loop_unguarded(_, _)
transition_loop_unguarded(outcomes, i) ==
  IF i > Len(outcomes) THEN 0
  ELSE IF outcomes[i] = "true" THEN i
  ELSE IF outcomes[i] = "raise" THEN -1
  ELSE transition_loop_unguarded(outcomes, i + 1)

\* the loop over transitions: try evaluate, except log and continue;
\* index of the transition that returns, 0 if none
RECURSIVE transition_loop(_, _)
transition_loop(outcomes, i) ==
  IF i > Len(outcomes) THEN 0
  ELSE IF outcomes[i] = "true" THEN i
  ELSE transition_loop(outcomes, i + 1)

\* router(state) over evaluation outcomes
router_outcomes(max_turns, st, targets, outcomes, exits) ==
  IF check_exit_outcomes(max_turns, st, exits)
  THEN [done |-> TRUE, raised |-> FALSE, target |-> END, via |-> "global_exit",
        idx |-> 0, state |-> st]
  ELSE LET i == transition_loop(outcomes, 1) IN
       IF i = -1
       THEN [done |-> TRUE, raised |-> TRUE, target |-> "", via |-> "raised",
             idx |-> 0, state |-> st]
       ELSE IF i = 0
       THEN [done |-> TRUE, raised |-> FALSE, target |-> END, via |-> "no_match",
             idx |-> 0, state |-> st]
       ELSE [done |-> TRUE, raised |-> FALSE, target |-> targets[i],
             via |-> "transition", idx |-> i,
             state |-> UpdateTurnCount(st, targets[i])]

RouteInit ==
  /\ IdleInit
  /\ steps = 0
  /\ state = create_initial_state
  /\ call \in {[op |-> "router", targets |-> ts, from_agent |-> "",
                outcomes |-> << >>, exits |-> << >>] : ts \in TargetLists}
  /\ returned = NoReturn

\* the conditional edge after a step of from_agent: router runs on the state
\* the agent node left behind
Router ==
  /\ steps < MaxRoutes
  /\ \E from_agent \in RouteAgents \cup {""}, total_turns \in {0, RouteMaxTurns},
        outcomes \in OutcomeLists(Len(call.targets)), exits \in ExitOutcomeLists :
       LET st == [state EXCEPT !.last_agent = from_agent, !.total_turns = total_turns]
           r == router_outcomes(RouteMaxTurns, st, call.targets, outcomes, exits)
       IN /\ call' = [call EXCEPT !.from_agent = from_agent, !.outcomes = outcomes,
                                  !.exits = exits]
          /\ returned' = [done |-> TRUE, raised |-> r.raised, target |-> r.target,
                          via |-> r.via, idx |-> r.idx, before |-> st]
          /\ state' = r.state
          /\ steps' = steps + 1
  /\ UNCHANGED idle_vars

RouteNext == Router

RouteSpec == RouteInit /\ [][RouteNext]_vars

\* ------------------------------------------------------------------ C32
\* C32: a transition whose condition raises counts as unsatisfied, the loop
\* goes on in declaration order, no run error is recorded; an exit condition
\* that raises does not end the run
FirstTrue(outcomes) ==
  IF \E i \in 1..Len(outcomes) : outcomes[i] = "true"
  THEN CHOOSE i \in 1..Len(outcomes) :
         outcomes[i] = "true" /\ \A j \in 1..(i - 1) : outcomes[j] # "true"
  ELSE 0

C32_RaisingConditionSkipped ==
  (call.op = "router" /\ returned.done) =>
    /\ ~returned.raised
    /\ state.error = None
    /\ (returned.via = "global_exit") <=>
         (returned.before.total_turns >= RouteMaxTurns
            \/ \E i \in 1..Len(call.exits) : call.exits[i] = "true")
    /\ returned.via # "global_exit" =>
         /\ returned.idx = FirstTrue(call.outcomes)
         /\ returned.idx # 0 => returned.target = call.targets[returned.idx]
         /\ returned.idx = 0 => returned.target = END

C32_Witness ==
  /\ call.op = "router" /\ returned.done
  /\ Len(call.outcomes) = 2
  /\ call.outcomes[1] = "raise" /\ call.outcomes[2] = "true"
  /\ call.exits = <<"raise">>
  /\ returned.via = "transition" /\ returned.idx = 2
  /\ state.error = None

\* ------------------------------------------------------------------ C33
\* C33: firing the edge of one (agent, target) pair never changes the counter
\* read for a different pair
EdgeCount(st, a, t) == GetCount(st.turn_counts, turn_count_key(a, t))

C33_CountersIndependent ==
  [][\A a \in RouteAgents, t \in RouteTargets \ {END} :
       (call'.op = "router" /\ returned'.done
          /\ <<a, t>> # <<call'.from_agent, returned'.target>>)
         => EdgeCount(state', a, t) = EdgeCount(state, a, t)]_vars

\* ------------------------------------------- StateMachineEngine.execute
MachineMaxTurns == 2
MaxMachineSteps == 4

Str_start == << "s", "t", "a", "r", "t" >>

Str_current_state ==
  << "c", "u", "r", "r", "e", "n", "t", "_", "s", "t", "a", "t", "e" >>

Str_execution_history ==
  << "e", "x", "e", "c", "u", "t", "i", "o", "n", "_",
     "h", "i", "s", "t", "o", "r", "y" >>

Str_agent_responses ==
  << "a", "g", "e", "n", "t", "_", "r", "e", "s", "p", "o", "n", "s", "e", "s" >>

\* a list value, kept as the number of its entries
PyList(n) == [t |-> "list", b |-> FALSE, n |-> n, s |-> << >>]

\* config of the engine: one state that always returns to itself, and the
\* turn budget as the only exit condition
MachineWorkflow ==
  [states |-> << [name |-> "A", agent |-> "a",
                  transitions |-> << [condition |-> Str_always, to |-> "A"] >>] >>,
   exit_conditions |-> << [condition |-> Str_max_turns_exceeded] >>,
   max_turns |-> MachineMaxTurns]

\* the decisions object of a reply
MachineDecisions ==
  {EmptyMap, Str_flag :> PyBool(TRUE),
   Str_turn_count :> PyInt(0), Str_turn_count :> PyStr(Str_x),
   Str_execution_history :> PyList(0), Str_execution_history :> PyNone,
   Str_agent_responses :> PyList(0), Str_error :> PyStr(Str_x),
   Str_current_state :> PyStr(Str_x)}

\* d.update(e)
dict_update(d, e) ==
  [k \in DOMAIN d \cup DOMAIN e |-> IF k \in DOMAIN e THEN e[k] ELSE d[k]]

\* global_state.update(decisions)
merge_decisions(global_state, decisions) == dict_update(global_state, decisions)

\* global_state = initial_state or {}; global_state.update({...})
machine_initial_state(initial_state) ==
  dict_update(initial_state,
              (Str_turn_count :> PyInt(0)) @@ (Str_current_state :> PyStr(Str_start))
                @@ (Str_execution_history :> PyList(0))
                @@ (Str_agent_responses :> PyList(0)))

\* StateMachineEngine._check_global_exit_conditions(global_state): the loop
\* over exit_conditions; exit_or_next is the body after one evaluation r
RECURSIVE machine_exit_from(_, _, _)
exit_or_next(r, cfg, global_state, i) ==
  IF r.raised \/ r.value THEN r
  ELSE machine_exit_from(cfg, global_state, i + 1)

machine_exit_from(cfg, global_state, i) ==
  IF i > Len(cfg.exit_conditions) THEN Returns(FALSE)
  ELSE exit_or_next(
         ConditionEvaluator_evaluate(
           cfg.max_turns,
           dict_get(cfg.exit_conditions[i], "condition", Str_empty),
           [has_decisions |-> FALSE, decisions |-> DictValue(EmptyMap)],
           global_state),
         cfg, global_state, i)

\* list.append on the value stored under key
append_to(global_state, key) ==
  [global_state EXCEPT ![key] = PyList(@.n + 1)]

MachineRaised(global_state) ==
  [raised |-> TRUE, exit |-> FALSE, invoked |-> FALSE, next |-> "",
   global_state |-> global_state]

\* the end of the loop body: t is what _evaluate_transitions gave for the
\* state g3 the step left behind
machine_advance(t, g3) ==
  IF t.raised \/ ~IsNumber(g3[Str_turn_count])
  THEN [MachineRaised(g3) EXCEPT !.invoked = TRUE]
  ELSE [raised |-> FALSE, exit |-> FALSE, invoked |-> TRUE, next |-> t.target,
        global_state |->
          [g3 EXCEPT ![Str_current_state] = PyStr(<< t.target >>),
                     ![Str_turn_count] = PyInt(NumberOf(@) + 1)]]

\* the loop body after the exit check gave exit
machine_body(exit, cfg, current_state, global_state, outcome) ==
  IF exit.raised THEN MachineRaised(global_state)
  ELSE IF exit.value
  THEN [raised |-> FALSE, exit |-> TRUE, invoked |-> FALSE, next |-> "",
        global_state |-> global_state]
  ELSE IF outcome.raises THEN [MachineRaised(global_state) EXCEPT !.invoked = TRUE]
  ELSE IF global_state[Str_agent_responses].t # "list"
  THEN [MachineRaised(global_state) EXCEPT !.invoked = TRUE]
  ELSE
    LET g1 == append_to(global_state, Str_agent_responses)
        g2 == merge_decisions(g1, outcome.decisions)
    IN IF g2[Str_execution_history].t # "list"
       THEN [MachineRaised(g2) EXCEPT !.invoked = TRUE]
       ELSE
         LET g3 == append_to(g2, Str_execution_history)
             agent_response == [has_decisions |-> TRUE,
                                decisions |-> DictValue(outcome.decisions)]
         IN machine_advance(
              evaluate_transitions(cfg.max_turns, current_state.transitions,
                                   agent_response, g3),
              g3)

\* one iteration of the while loop of execute, entered at current_state
machine_iteration(cfg, current_state, global_state, outcome) ==
  machine_body(machine_exit_from(cfg, global_state, 1),
               cfg, current_state, global_state, outcome)

\* StateMachineEngine._build_result(global_state)
machine_build_result(global_state) ==
  [success |-> dict_get(global_state, Str_error, PyNone) = PyNone,
   total_turns |-> dict_get(global_state, Str_turn_count, PyInt(0)),
   error |-> dict_get(global_state, Str_error, PyNone),
   execution_history |-> dict_get(global_state, Str_execution_history, PyList(0))]

machine_idle_vars ==
  <<config, failed_states, ok_steps, routed, last_step, end_reason, workflow_result,
    returned, service_vars>>

MachineInit ==
  /\ IdleInit
  /\ steps = 0
  /\ state = EmptyMap
  /\ call = NoCall
  /\ returned = NoReturn

\* execute() up to the loop
MachineExecute ==
  /\ pc = "init"
  /\ pc' = "running"
  /\ cur' = get_start_state(MachineWorkflow)
  /\ state' = machine_initial_state(state)
  /\ UNCHANGED <<steps, result, invocations, call, machine_idle_vars>>

\* one pass through the loop body; the agent replies with decisions or the
\* agent task raises
MachineStep(outcome) ==
  /\ pc = "running"
  /\ steps < MaxMachineSteps
  /\ \E r \in {machine_iteration(MachineWorkflow, MachineWorkflow.states[1], state,
                                  outcome)} :
        /\ state' = r.global_state
        /\ call' = [op |-> "machine_step", raises |-> outcome.raises,
                    decisions |-> outcome.decisions]
        /\ invocations' = IF r.invoked THEN invocations + 1 ELSE invocations
        /\ steps' = IF r.raised \/ r.exit THEN steps ELSE steps + 1
        /\ IF r.raised
           THEN pc' = "raised" /\ cur' = cur /\ result' = result
           ELSE IF r.exit \/ r.next = END
           THEN /\ pc' = "done"
                /\ cur' = cur
                /\ result' = machine_build_result(r.global_state)
           ELSE pc' = "running" /\ cur' = r.next /\ result' = result
  /\ UNCHANGED machine_idle_vars

MachineReplies == \E d \in MachineDecisions : MachineStep([raises |-> FALSE, decisions |-> d])

MachineAgentRaises == MachineStep([raises |-> TRUE, decisions |-> EmptyMap])

MachineNext == MachineExecute \/ MachineReplies \/ MachineAgentRaises

MachineSpec == MachineInit /\ [][MachineNext]_vars

\* ------------------------------------------------------------------ C34
\* C34: whatever the decisions of the replies contain, after every step
\* turn_count is the number of steps executed, execution_history and
\* agent_responses are the engine's lists, error is not set, and with the exit
\* condition max_turns_exceeded at most max_turns agents are invoked
C34_BookkeepingOwned ==
  (call.op = "machine_step" /\ pc \in {"running", "done"}) =>
    /\ state[Str_turn_count] = PyInt(steps)
    /\ state[Str_execution_history] = PyList(steps)
    /\ state[Str_agent_responses] = PyList(steps)
    /\ Str_error \notin DOMAIN state
    /\ invocations <= MachineMaxTurns

\* ------------------------------------------- decorators/retry.py:
\* circuit_breaker.  state holds the closure variables of the wrapper and the
\* clock that time.time() reads; returned keeps what the calls so far did
FailureThreshold == 2
RecoveryTimeout == 2
MaxDuration == 2
MaxTime == 6
MaxBreakerCalls == 5

\* what the wrapped function does when invoked: returns, raises one of
\* expected_exceptions, or raises another exception
FuncOutcomes == {"ok", "expected", "unexpected"}

\* failures = 0; last_failure_time = 0; state = "closed"
breaker_initial == [failures |-> 0, last_failure_time |-> 0, state |-> "closed", now |-> 0]

\* wrapper(*args, **kwargs) of circuit_breaker called at current_time
circuit_breaker_wrapper(b, current_time, outcome) ==
  LET s1 == IF b.state = "open"
               /\ current_time - b.last_failure_time > RecoveryTimeout
            THEN "half_open" ELSE b.state
  IN IF s1 = "open"
     THEN [breaker |-> b, invoked |-> FALSE, raised |-> TRUE,
           error |-> "Circuit breaker is OPEN"]
     ELSE IF outcome = "ok"
     THEN [breaker |-> [b EXCEPT !.state = IF s1 = "half_open" THEN "closed" ELSE s1,
                                 !.failures = 0],
           invoked |-> TRUE, raised |-> FALSE, error |-> None]
     ELSE IF outcome = "expected"
     THEN [breaker |-> [b EXCEPT !.failures = @ + 1,
                                 !.last_failure_time = current_time,
                                 !.state = IF b.failures + 1 >= FailureThreshold
                                           THEN "open" ELSE s1],
           invoked |-> TRUE, raised |-> TRUE, error |-> "expected"]
     ELSE [breaker |-> [b EXCEPT !.state = s1],
           invoked |-> TRUE, raised |-> TRUE, error |-> "unexpected"]

NoBreakerCall == [op |-> "none", start |-> 0, duration |-> 0, outcome |-> "ok"]

\* nothing called yet: no failure so far
NoBreakerReturn ==
  [done |-> FALSE, invoked |-> FALSE, raised |-> FALSE, error |-> None,
   was |-> "closed", streak |-> 0, failed_at |-> 0]

BreakerInit ==
  /\ IdleInit
  /\ steps = 0
  /\ state = breaker_initial
  /\ call = NoBreakerCall
  /\ returned = NoBreakerReturn

\* one call of the wrapped function: time.time() is read when the call
\* starts, the function runs for duration ticks
BreakerCall ==
  \E outcome \in FuncOutcomes, duration \in 0..MaxDuration :
    /\ steps < MaxBreakerCalls
    /\ state.now + duration <= MaxTime
    /\ LET r == circuit_breaker_wrapper(state, state.now, outcome)
           elapsed == IF r.invoked THEN duration ELSE 0
       IN /\ state' = [r.breaker EXCEPT !.now = state.now + elapsed]
          /\ call' = [op |-> "circuit_breaker", start |-> state.now,
                      duration |-> elapsed, outcome |-> outcome]
          /\ returned' =
               [done |-> TRUE, invoked |-> r.invoked, raised |-> r.raised,
                error |-> r.error, was |-> state.state,
                streak |-> IF ~r.invoked THEN returned.streak
                           ELSE IF outcome = "ok" THEN 0
                           ELSE IF outcome = "expected" THEN returned.streak + 1
                           ELSE returned.streak,
                failed_at |-> IF r.invoked /\ outcome = "expected"
                              THEN state.now + elapsed ELSE returned.failed_at]
          /\ steps' = steps + 1
    /\ UNCHANGED idle_vars

\* time passes between calls
Tick ==
  /\ state.now < MaxTime
  /\ state' = [state EXCEPT !.now = @ + 1]
  /\ UNCHANGED <<steps, call, returned, idle_vars>>

BreakerNext == BreakerCall \/ Tick

BreakerSpec == BreakerInit /\ [][BreakerNext]_vars

\* ------------------------------------------------------------------ C35
\* C35: once the function has failed failure_threshold times in a row with an
\* expected exception, every call made before recovery_timeout has elapsed
\* since the last failure raises "Circuit breaker is OPEN" and does not invoke
\* the function
C35_OpenBlocksCalls ==
  [][(steps' = steps + 1
        /\ returned.streak >= FailureThreshold
        /\ call'.start - returned.failed_at < RecoveryTimeout)
       => (~returned'.invoked /\ returned'.error = "Circuit breaker is OPEN")]_vars

\* ------------------------------------------------------------------ C36
\* C36: the breaker opens only on failure_threshold consecutive expected
\* failures; a successful call resets the failure count; after the timeout one
\* trial call is let through, its success closes the breaker with a zero
\* count, its failure re-opens it
C36_HalfOpenTrial ==
  [][steps' = steps + 1 =>
       /\ (state.state # "open" /\ state'.state = "open")
            => returned'.streak >= FailureThreshold
       /\ (returned'.invoked /\ call'.outcome = "ok") => state'.failures = 0
       /\ (state.state = "open" /\ call'.start - state.last_failure_time > RecoveryTimeout)
            => /\ returned'.invoked
               /\ call'.outcome = "ok" => (state'.state = "closed" /\ state'.failures = 0)
               /\ call'.outcome # "ok" => state'.state = "open"
       /\ state'.state \in {"closed", "open"}]_vars

\* ------------------------------------------- decorators/retry.py:
\* retry_on_failure and exponential_backoff.  An invocation of the wrapped
\* function returns, raises one of the configured exception types, or raises
\* another Exception; values and exceptions carry the number of the invocation
MaxAttempts == 3

InvocationOutcomes == {"ok", "configured", "other"}

NoException == <<"None", 0>>

RetryResult(invoked, raised, value, exception) ==
  [done |-> TRUE, invoked |-> invoked, raised |-> raised, value |-> value,
   exception |-> exception]

\* raise last_exception
raise_last(last_exception) ==
  IF last_exception = NoException THEN <<"TypeError", 0>> ELSE last_exception

\* a loop that keeps the exception of the first failed attempt
RECURSIVE retry_loop_first(_, _, _, _)
retry_loop_first(max_attempts, outcomes, attempt, last_exception) ==
  IF attempt >= max_attempts
  THEN RetryResult(attempt, TRUE, 0, raise_last(last_exception))
  ELSE LET o == outcomes[attempt + 1] IN
       IF o = "ok" THEN RetryResult(attempt + 1, FALSE, attempt + 1, NoException)
       ELSE IF o = "configured"
       THEN retry_loop_first(max_attempts, outcomes, attempt + 1,
                             IF last_exception = NoException
                             THEN <<o, attempt + 1>> ELSE last_exception)
       ELSE RetryResult(attempt + 1, TRUE, 0, <<o, attempt + 1>>)

\* wrapper of retry_on_failure from iteration attempt of range(max_attempts) on
RECURSIVE retry_loop(_, _, _, _)
retry_loop(max_attempts, outcomes, attempt, last_exception) ==
  IF attempt >= max_attempts
  THEN RetryResult(attempt, TRUE, 0, raise_last(last_exception))
  ELSE LET o == outcomes[attempt + 1] IN
       IF o = "ok" THEN RetryResult(attempt + 1, FALSE, attempt + 1, NoException)
       ELSE IF o = "configured"
       THEN retry_loop(max_attempts, outcomes, attempt + 1, <<o, attempt + 1>>)
       ELSE RetryResult(attempt + 1, TRUE, 0, <<o, attempt + 1>>)

retry_on_failure(max_attempts, outcomes) ==
  retry_loop(max_attempts, outcomes, 0, NoException)

\* a bare raise outside any except block: the exception being handled around
\* the call, RuntimeError when there is none
bare_raise(handling) ==
  IF handling = NoException THEN <<"RuntimeError", 0>> ELSE handling

\* wrapper of exponential_backoff from iteration attempt on; handling is the
\* exception the caller is handling when it calls the wrapper
RECURSIVE backoff_loop(_, _, _, _)
backoff_loop(max_attempts, outcomes, attempt, handling) ==
  IF attempt >= max_attempts
  THEN RetryResult(attempt, TRUE, 0, bare_raise(handling))
  ELSE IF outcomes[attempt + 1] = "ok"
  THEN RetryResult(attempt + 1, FALSE, attempt + 1, NoException)
  ELSE backoff_loop(max_attempts, outcomes, attempt + 1, handling)

exponential_backoff(max_attempts, outcomes, handling) ==
  backoff_loop(max_attempts, outcomes, 0, handling)

RetryCalls ==
  {[op |-> op, max_attempts |-> n, outcomes |-> os, handling |-> h] :
     op \in {"retry_on_failure", "exponential_backoff"}, n \in 0..MaxAttempts,
     os \in [1..MaxAttempts -> InvocationOutcomes],
     h \in {NoException, <<"caller", 0>>}}

NoRetryReturn == [RetryResult(0, FALSE, 0, NoException) EXCEPT !.done = FALSE]

RetryInit ==
  /\ IdleInit
  /\ steps = 0
  /\ state = create_initial_state
  /\ call \in RetryCalls
  /\ returned = NoRetryReturn

RetryOnFailure ==
  /\ call.op = "retry_on_failure"
  /\ ~returned.done
  /\ returned' = retry_on_failure(call.max_attempts, call.outcomes)
  /\ UNCHANGED <<steps, state, call, idle_vars>>

ExponentialBackoff ==
  /\ call.op = "exponential_backoff"
  /\ ~returned.done
  /\ returned' = exponential_backoff(call.max_attempts, call.outcomes, call.handling)
  /\ UNCHANGED <<steps, state, call, idle_vars>>

RetryNext == RetryOnFailure \/ ExponentialBackoff

RetrySpec == RetryInit /\ [][RetryNext]_vars

\* index of the first invocation among the first n that does not raise one
\* of kinds, 0 if all of them do
FirstNot(outcomes, n, kinds) ==
  IF \E i \in 1..n : outcomes[i] \notin kinds
  THEN CHOOSE i \in 1..n : outcomes[i] \notin kinds
                             /\ \A j \in 1..(i - 1) : outcomes[j] \in kinds
  ELSE 0

\* ------------------------------------------------------------------ C37
\* C37: with max_attempts = n >= 1 retry_on_failure invokes the function at
\* most n times, stops at the first success and returns its value, raises the
\* last invocation's exception when all n raise a configured type, and lets
\* any other exception through at once
C37_RetryOnFailure ==
  (call.op = "retry_on_failure" /\ returned.done /\ call.max_attempts >= 1) =>
    LET n == call.max_attempts
        k == FirstNot(call.outcomes, n, {"configured"})
    IN /\ returned.invoked <= n
       /\ (k # 0 /\ call.outcomes[k] = "ok") =>
            (~returned.raised /\ returned.value = k /\ returned.invoked = k)
       /\ (k # 0 /\ call.outcomes[k] = "other") =>
            (returned.raised /\ returned.exception = <<"other", k>>
               /\ returned.invoked = k)
       /\ k = 0 => (returned.raised /\ returned.exception = <<"configured", n>>
                      /\ returned.invoked = n)

C37_Witness ==
  /\ call.op = "retry_on_failure" /\ returned.done
  /\ call.max_attempts = 3
  /\ call.outcomes = <<"configured", "configured", "configured">>
  /\ returned.raised /\ returned.exception = <<"configured", 3>>
  /\ returned.invoked = 3

\* ------------------------------------------------------------------ C38
\* C38: exponential_backoff with max_attempts = n invokes the function at
\* most n times, returns the first success's value, and re-raises the last
\* invocation's exception when all n invocations raise
C38_ExponentialBackoff ==
  (call.op = "exponential_backoff" /\ returned.done) =>
    LET n == call.max_attempts
        k == FirstNot(call.outcomes, n, {"configured", "other"})
    IN /\ returned.invoked <= n
       /\ k # 0 => (~returned.raised /\ returned.value = k /\ returned.invoked = k)
       /\ (k = 0 /\ n >= 1) =>
            (returned.raised /\ returned.exception = <<call.outcomes[n], n>>
               /\ returned.invoked = n)

\* ------------------------------------------- MasAiderSession and the agent
\* cache of mas_aider/services/agent_service.py.  Names and cache keys are
\* texts: sequences of lexemes, so that a name may contain ':'
MaxSessionOps == 3

SessionWorkflows == {<<"wf">>, <<"wf", ":", "x">>, <<"other">>}
SessionAgentLists == {<< <<"coder">> >>, << <<"coder">>, <<"reviewer">> >>}
SessionWorkspace == <<"ws">>

\* cache_key = f"{workflow_name or 'default'}:{agent_name}:{workspace_path}"
cache_key_text(agent_name, workspace_path, workflow_name) ==
  (IF workflow_name = << >> THEN <<"default">> ELSE workflow_name)
    \o <<":">> \o agent_name \o <<":">> \o workspace_path

\* get_agent for each agent of a workflow run, one after the other; cache is
\* [agents, made, acquired]: the cache, the keys the factory was called for,
\* and the acquisitions whose agent is still cached
RECURSIVE acquire_from(_, _, _, _)
acquire_from(cache, workflow_name, agent_names, i) ==
  IF i > Len(agent_names) THEN cache
  ELSE LET cache_key == cache_key_text(agent_names[i], SessionWorkspace, workflow_name)
           hit == cache_key \in DOMAIN cache.agents
           agent == IF hit THEN cache.agents[cache_key] ELSE Len(cache.made) + 1
           entry == [cache_key |-> cache_key, workflow_name |-> workflow_name,
                     agent_name |-> agent_names[i], workspace_path |-> SessionWorkspace,
                     agent |-> agent, fresh |-> ~hit]
       IN acquire_from([agents |-> IF hit THEN cache.agents
                                   ELSE (cache_key :> agent) @@ cache.agents,
                        made |-> IF hit THEN cache.made ELSE Append(cache.made, cache_key),
                        acquired |-> Append(cache.acquired, entry)],
                       workflow_name, agent_names, i + 1)

\* keys_to_remove of clear_agents_for_workflow
keys_to_remove(agents, workflow_name) ==
  {k \in DOMAIN agents : startswith(k, workflow_name \o <<":">>)}

\* AgentService.clear_agents_for_workflow(workflow_name): cleanup of the agents
\* in failing raises, which is logged; every key to remove is deleted
clear_agents_for_workflow(agents, workflow_name, failing) ==
  [k \in DOMAIN agents \ keys_to_remove(agents, workflow_name) |-> agents[k]]

\* MasAiderSession.cleanup_workflow(workflow_name) on [agents, active_workflows]
cleanup_workflow(s, workflow_name, failing) ==
  IF workflow_name \in s.active_workflows
  THEN [agents |-> clear_agents_for_workflow(s.agents, workflow_name, failing),
        active_workflows |-> s.active_workflows \ {workflow_name}]
  ELSE s

\* for workflow in list(self.active_workflows): self.cleanup_workflow(workflow)
RECURSIVE cleanup_all(_, _, _)
cleanup_all(s, workflows, failing) ==
  IF workflows = {} THEN s
  ELSE LET w == CHOOSE w \in workflows : TRUE IN
       cleanup_all(cleanup_workflow(s, w, failing), workflows \ {w}, failing)

StillCached(acq, agents) == SelectSeq(acq, LAMBDA c : c.cache_key \in DOMAIN agents)

NoSessionCall == [op |-> "none", workflow_name |-> << >>, failing |-> {}]

SessionInit ==
  /\ config = [name |-> LoopWorkflow.name, states |-> LoopWorkflow.states,
               exit_conditions |-> LoopWorkflow.exit_conditions,
               max_turns |-> MaxTurnsBound]
  /\ pc = "init"
  /\ cur = ""
  /\ steps = 0
  /\ state \in {[active_workflows |-> {}, auto_cleanup |-> b, exited |-> FALSE] :
                  b \in BOOLEAN}
  /\ result = NoResult
  /\ invocations = 0
  /\ failed_states = << >>
  /\ ok_steps = << >>
  /\ routed = EmptyMap
  /\ last_step = NoStep
  /\ end_reason = ""
  /\ workflow_result = NoWorkflowResult
  /\ call = NoSessionCall
  /\ returned = NoReturn
  /\ ServiceInit

session_idle_vars ==
  <<config, pc, cur, result, invocations, failed_states, ok_steps, routed, last_step,
    end_reason, workflow_result, returned, registry, threads>>

\* MasAiderSession.run_workflow(workflow_name): the workflow is recorded as
\* active and its steps acquire the agents of the workflow
RunWorkflow ==
  /\ ~state.exited
  /\ steps < MaxSessionOps
  /\ \E w \in SessionWorkflows, names \in SessionAgentLists :
       LET r == acquire_from([agents |-> active_agents, made |-> created,
                              acquired |-> acquired], w, names, 1)
       IN /\ active_agents' = r.agents
          /\ created' = r.made
          /\ acquired' = r.acquired
          /\ state' = [state EXCEPT !.active_workflows = @ \cup {w}]
          /\ call' = [op |-> "run_workflow", workflow_name |-> w, failing |-> {}]
  /\ steps' = steps + 1
  /\ UNCHANGED session_idle_vars

\* agent_service.clear_agents_for_workflow(workflow_name), called directly;
\* the cleanup of some agents may raise
ClearAgentsForWorkflow ==
  /\ ~state.exited
  /\ steps < MaxSessionOps
  /\ \E w \in SessionWorkflows, failing \in SUBSET (DOMAIN active_agents) :
       /\ active_agents' = clear_agents_for_workflow(active_agents, w, failing)
       /\ acquired' = StillCached(acquired, active_agents')
       /\ call' = [op |-> "clear_agents_for_workflow", workflow_name |-> w,
                   failing |-> failing]
  /\ steps' = steps + 1
  /\ UNCHANGED <<state, created, session_idle_vars>>

\* session.cleanup_workflow(workflow_name)
CleanupWorkflow ==
  /\ ~state.exited
  /\ steps < MaxSessionOps
  /\ \E w \in SessionWorkflows :
       LET r == cleanup_workflow([agents |-> active_agents,
                                  active_workflows |-> state.active_workflows], w, {})
       IN /\ active_agents' = r.agents
          /\ acquired' = StillCached(acquired, r.agents)
          /\ state' = [state EXCEPT !.active_workflows = r.active_workflows]
          /\ call' = [op |-> "cleanup_workflow", workflow_name |-> w, failing |-> {}]
  /\ steps' = steps + 1
  /\ UNCHANGED <<created, session_idle_vars>>

\* MasAiderSession.__exit__
SessionExit ==
  /\ ~state.exited
  /\ LET r == IF state.auto_cleanup
              THEN cleanup_all([agents |-> active_agents,
                                active_workflows |-> state.active_workflows],
                               state.active_workflows, {})
              ELSE [agents |-> active_agents,
                    active_workflows |-> state.active_workflows]
     IN /\ active_agents' = r.agents
        /\ acquired' = StillCached(acquired, r.agents)
        /\ state' = [state EXCEPT !.active_workflows = r.active_workflows,
                                  !.exited = TRUE]
        /\ call' = [op |-> "__exit__", workflow_name |-> << >>, failing |-> {}]
  /\ UNCHANGED <<steps, created, session_idle_vars>>

SessionNext == RunWorkflow \/ ClearAgentsForWorkflow \/ CleanupWorkflow \/ SessionExit

SessionSpec == SessionInit /\ [][SessionNext]_vars

\* ------------------------------------------------------------------ C39
\* C39: clear_agents_for_workflow(w) removes exactly the cached agents that
\* were acquired for workflow w and keeps the agents of every other workflow,
\* also when the cleanup of an agent fails; after a session with auto_cleanup
\* has exited no agent of a workflow run in the session is cached
ClearsExactly ==
  /\ call'.op = "clear_agents_for_workflow" =>
       \A i \in 1..Len(acquired) :
          (acquired[i].workflow_name = call'.workflow_name)
            <=> (acquired[i].cache_key \notin DOMAIN active_agents')
  /\ (call'.op = "__exit__" /\ state.auto_cleanup) => DOMAIN active_agents' = {}

C39_ClearExactlyWorkflow == [][ClearsExactly]_vars

\* ------------------------------------------- LangGraphEngine._render_prompt
\* A template is a sequence of items: text, a {{token}}, and the pieces of the
\* conditional syntax; texts and rendered prompts are sequences of lexemes,
\* names are sequences of characters
TextItem(v) == [k |-> "text", v |-> v]
TokenItem(name) == [k |-> "token", v |-> <<name>>]
IfItem(x) == [k |-> "if", v |-> x]
ElseItem == [k |-> "else", v |-> << >>]
EndIfItem == [k |-> "endif", v |-> << >>]

RenderAgents == {<<"a">>, <<"b">>, <<"a", "-", "b">>}

NameTemplate == << TokenItem("last_agent_name") >>
ContentTemplate == << TokenItem("last_agent_content") >>
DecisionsTemplate == << TokenItem("last_agent_decisions") >>
BlockTemplate(x) ==
  << IfItem(x), TextItem(<<"A">>), ElseItem, TextItem(<<"B">>), EndIfItem >>

Templates ==
  {NameTemplate, ContentTemplate, DecisionsTemplate,
   << TextItem(<<"turn">>), TokenItem("turn_count"), TokenItem("initial_message"),
      IfItem(<<"a">>), TokenItem("last_agent_content"), ElseItem, EndIfItem,
      IfItem(<<"b">>), TextItem(<<"A">>), EndIfItem >>}
    \cup {BlockTemplate(x) : x \in RenderAgents}

\* entries of agent_responses
ResponseEntries ==
  {[agent |-> a, response |-> [content |-> c, decisions |-> d]] :
     a \in RenderAgents, c \in {"", "done"}, d \in {EmptyMap, "confirmed" :> TRUE}}

ResponseLists ==
  {<< >>} \cup {<<e>> : e \in ResponseEntries}
    \cup {<<e, f>> : e \in ResponseEntries, f \in ResponseEntries}

\* str(last_decisions) of a dict with at most one key
str_dict(d) ==
  IF DOMAIN d = {} THEN <<"{", "}">>
  ELSE LET key == CHOOSE key \in DOMAIN d : TRUE IN
       <<"{", "'", key, "'", ":", IF d[key] THEN "True" ELSE "False", "}">>

\* the text of a value spliced into the prompt: the empty string adds nothing
str_text(s) == IF s = "" THEN << >> ELSE <<s>>

\* prompt.replace("{{name}}", value)
replace_token(items, name, value) ==
  [i \in 1..Len(items) |->
     IF items[i] = TokenItem(name) THEN TextItem(value) ELSE items[i]]

\* index of the first item of kind k at or after from, 0 if there is none
first_at(items, k, from) ==
  IF \E j \in from..Len(items) : items[j].k = k
  THEN CHOOSE j \in from..Len(items) :
         items[j].k = k /\ \A h \in from..(j - 1) : items[h].k # k
  ELSE 0

\* (\w+)
is_word(x) == Len(x) > 0 /\ \A i \in 1..Len(x) : x[i] \in WordChars

\* re.sub(pattern, replace_conditional, prompt, flags=re.DOTALL) from item i on
RECURSIVE sub_conditionals(_, _, _)
sub_conditionals(items, i, last_agent_name) ==
  IF i > Len(items) THEN << >>
  ELSE LET e == IF items[i].k = "if" /\ is_word(items[i].v)
                THEN first_at(items, "else", i + 1) ELSE 0
           f == IF e # 0 THEN first_at(items, "endif", e + 1) ELSE 0
       IN IF f # 0
          THEN (IF last_agent_name = items[i].v
                THEN SubSeq(items, i + 1, e - 1) ELSE SubSeq(items, e + 1, f - 1))
                 \o sub_conditionals(items, f + 1, last_agent_name)
          ELSE << items[i] >> \o sub_conditionals(items, i + 1, last_agent_name)

\* the text of an item that is left in the prompt
item_text(item) ==
  CASE item.k = "text" -> item.v
    [] item.k = "token" -> <<"{{">> \o item.v \o <<"}}">>
    [] item.k = "if" -> <<"{% if last_agent_name == \"">> \o item.v \o <<"\" %}">>
    [] item.k = "else" -> <<"{% else %}">>
    [] OTHER -> <<"{% endif %}">>

RECURSIVE prompt_text(_, _)
prompt_text(items, i) ==
  IF i > Len(items) THEN << >>
  ELSE item_text(items[i]) \o prompt_text(items, i + 1)

\* _render_prompt(template, state)
render_prompt(template, st) ==
  LET p1 == replace_token(template, "initial_message", str_text(st.initial_message))
      p2 == replace_token(p1, "turn_count", <<Numerals[st.total_turns + 1]>>)
      p3 == replace_token(p2, "COLLABORATION_GUIDE", <<"guide">>)
      agent_responses == st.agent_responses
      last_response == agent_responses[Len(agent_responses)]
      last_agent_name == IF Len(agent_responses) > 0 THEN last_response.agent ELSE << >>
      p4 == IF Len(agent_responses) > 0
            THEN replace_token(
                   replace_token(
                     replace_token(p3, "last_agent_name", last_agent_name),
                     "last_agent_content", str_text(last_response.response.content)),
                   "last_agent_decisions", str_dict(last_response.response.decisions))
            ELSE replace_token(
                   replace_token(
                     replace_token(p3, "last_agent_name", << >>),
                     "last_agent_content", << >>),
                   "last_agent_decisions", <<"{", "}">>)
  IN prompt_text(sub_conditionals(p4, 1, last_agent_name), 1)

RenderCalls ==
  {[op |-> "_render_prompt", template |-> t,
    state |-> [initial_message |-> "task", total_turns |-> Len(rs),
               agent_responses |-> rs]] :
     t \in Templates, rs \in ResponseLists}

RenderInit ==
  /\ IdleInit
  /\ steps = 0
  /\ state = create_initial_state
  /\ call \in RenderCalls
  /\ returned = [done |-> FALSE, prompt |-> << >>]

RenderPrompt ==
  /\ call.op = "_render_prompt"
  /\ ~returned.done
  /\ returned' = [done |-> TRUE, prompt |-> render_prompt(call.template, call.state)]
  /\ UNCHANGED <<steps, state, call, idle_vars>>

RenderNext == RenderPrompt

RenderSpec == RenderInit /\ [][RenderNext]_vars

\* ------------------------------------------------------------------ C40
\* C40: the rendered prompt carries the agent name, content and decisions of
\* the most recent entry of agent_responses; on the first step the three
\* tokens render empty; a block if X / A / else / B renders A exactly when the
\* preceding step's agent is X, and B on the first step
C40_RenderedPrompt ==
  (call.op = "_render_prompt" /\ returned.done) =>
    LET rs == call.state.agent_responses
        first == rs = << >>
        last == rs[Len(rs)]
    IN /\ call.template = NameTemplate =>
            returned.prompt = IF first THEN << >> ELSE last.agent
       /\ call.template = ContentTemplate =>
            returned.prompt = IF first THEN << >> ELSE str_text(last.response.content)
       /\ call.template = DecisionsTemplate =>
            returned.prompt = IF first THEN << >> ELSE str_dict(last.response.decisions)
       /\ \A x \in RenderAgents :
            call.template = BlockTemplate(x) =>
              returned.prompt = IF ~first /\ last.agent = x THEN <<"A">> ELSE <<"B">>

====
